---- MODULE Spec2Model ----
(***************************************************************************)
(* ui-automation-recon-toolkit: the recon scanner (scanUrl), the page      *)
(* model builder (buildPageModel) and the gen command that drives it.      *)
(*                                                                         *)
(* Strings are sequences of one-character strings.  The JavaScript values  *)
(* undefined / null are the one-element sequence UNDEF, whose element is   *)
(* no character, so that every optional string is a sequence.              *)
(***************************************************************************)
EXTENDS Integers, Sequences, FiniteSets, TLC

VARIABLES
  inputFile,  \* the recon report stored in the file named by --input
  report,     \* gen: the parsed report (local of the action callback)
  model,      \* gen: the page model returned by buildPageModel
  genPc,      \* gen: position of the action callback
  files,      \* the page-model files on disk: {[path, content]}
  clock,      \* the system clock (new Date())
  probe,      \* the report the behaviour started with (observer)
  history,    \* results of the buildPageModel calls made on `probe` (observer)
  page,       \* scan: the rendered page each scan's target serves
  scan        \* scan: the state of each scanUrl invocation

genVars == <<inputFile, report, model, genPc, files, probe, history>>
scanVars == <<page, scan>>
vars == <<genVars, clock, scanVars>>

(***************************************************************************)
(* JavaScript values                                                       *)
(***************************************************************************)
UNDEF == <<"undefined">>
\* undefined where an object (a report, a model) is expected
NONE == [undefined |-> TRUE]
JTRUE == <<"true">>
JFALSE == <<"false">>

\* Boolean(s) of an optional string: undefined, null and "" are falsy.
Truthy(s) == s # UNDEF /\ s # <<>>

\* a || b
Or(a, b) == IF Truthy(a) THEN a ELSE b

Min(a, b) == IF a < b THEN a ELSE b

\* what the regular expression class \s matches
WS == {" ", "\t", "\n"}

LowerLetters ==
  <<"a","b","c","d","e","f","g","h","i","j","k","l","m",
    "n","o","p","q","r","s","t","u","v","w","x","y","z">>

UpperLetters ==
  <<"A","B","C","D","E","F","G","H","I","J","K","L","M",
    "N","O","P","Q","R","S","T","U","V","W","X","Y","Z">>

Digits == <<"0","1","2","3","4","5","6","7","8","9">>

Range(f) == {f[i] : i \in DOMAIN f}

\* the class [a-z0-9]
IsLowerAlnum(c) == c \in Range(LowerLetters) \cup Range(Digits)

\* String.prototype.toLowerCase, one character
LowerChar(c) ==
  IF c \in Range(UpperLetters)
  THEN LowerLetters[CHOOSE i \in DOMAIN UpperLetters : UpperLetters[i] = c]
  ELSE c

toLowerCase(s) == [i \in DOMAIN s |-> LowerChar(s[i])]

\* s.slice(0, n)
Slice0(s, n) == SubSeq(s, 1, Min(n, Len(s)))

\* s.startsWith(p)
StartsWith(s, p) == Len(s) >= Len(p) /\ SubSeq(s, 1, Len(p)) = p

\* s.slice(n)
Drop(s, n) == SubSeq(s, n + 1, Len(s))

\* the indices of s in increasing order
Indices(s) == [i \in 1..Len(s) |-> i]

\* s without its longest prefix of characters in cs
DropLeading(s, cs) ==
  LET rest == {i \in DOMAIN s : s[i] \notin cs}
  IN IF rest = {} THEN <<>>
     ELSE SubSeq(s, CHOOSE i \in rest : \A j \in rest : i <= j, Len(s))

\* s without its longest suffix of characters in cs
DropTrailing(s, cs) ==
  LET rest == {i \in DOMAIN s : s[i] \notin cs}
  IN IF rest = {} THEN <<>>
     ELSE SubSeq(s, 1, CHOOSE i \in rest : \A j \in rest : i >= j)

TrimStart(s) == DropLeading(s, WS)

TrimEnd(s) == DropTrailing(s, WS)

\* String.prototype.trim
Trim(s) == TrimEnd(TrimStart(s))

\* s.replace(/\s+/g, " "): every maximal run of whitespace becomes one space
CollapseWs(s) ==
  LET kept == SelectSeq(Indices(s), LAMBDA i : s[i] \notin WS \/ i = 1 \/ s[i - 1] \notin WS)
  IN [k \in DOMAIN kept |-> IF s[kept[k]] \in WS THEN " " ELSE s[kept[k]]]

\* a string of n copies of the character c
Rep(c, n) == [i \in 1..n |-> c]

\* String(n) for a non-negative integer
RECURSIVE NumStr(_)
NumStr(n) ==
  IF n < 10 THEN <<Digits[n + 1]>> ELSE NumStr(n \div 10) \o <<Digits[(n % 10) + 1]>>

(***************************************************************************)
(* src/model/buildPageModel.ts                                             *)
(***************************************************************************)

\* The WHATWG URL parser, as far as domainFromUrl depends on it: a special
\* scheme followed by "://", then the host up to the first of / ? # and
\* without its port.  Anything else (no scheme, an empty host, a space in
\* the host, undefined) makes `new URL(url)` throw a TypeError.
SchemeHttps == <<"h","t","t","p","s",":","/","/">>
SchemeHttp == <<"h","t","t","p",":","/","/">>

AfterScheme(url) ==
  IF StartsWith(url, SchemeHttps) THEN Drop(url, Len(SchemeHttps))
  ELSE IF StartsWith(url, SchemeHttp) THEN Drop(url, Len(SchemeHttp))
  ELSE UNDEF

RECURSIVE TakeUntil(_, _)
TakeUntil(s, stops) ==
  IF s = <<>> \/ Head(s) \in stops THEN <<>> ELSE <<Head(s)>> \o TakeUntil(Tail(s), stops)

\* u.hostname of new URL(url); UNDEF stands for the TypeError
Hostname(url) ==
  LET rest == AfterScheme(url)
      host == toLowerCase(TakeUntil(TakeUntil(rest, {"/", "?", "#"}), {":"}))
  IN IF url = UNDEF \/ rest = UNDEF THEN UNDEF
     ELSE IF host = <<>> \/ \E i \in DOMAIN host : host[i] \in WS THEN UNDEF
     ELSE host

\* mutant of StripWww: the dot of the pattern left unescaped, /^www./
StripWwwAnyChar(h) ==
  IF Len(h) >= 4 /\ SubSeq(h, 1, 3) = <<"w","w","w">> THEN Drop(h, 4) ELSE h

WwwDot == <<"w","w","w",".">>

\* hostname.replace(/^www\./, ""): one leading "www." is removed
StripWww(h) == IF StartsWith(h, WwwDot) THEN Drop(h, Len(WwwDot)) ELSE h

\* mutant of domainFromUrl: the parse failure swallowed, an empty domain returned
domainFromUrlLenient(url) ==
  LET h == Hostname(url) IN IF h = UNDEF THEN <<>> ELSE StripWww(h)

\* domainFromUrl(url); UNDEF stands for the TypeError thrown by new URL
domainFromUrl(url) ==
  LET h == Hostname(url) IN IF h = UNDEF THEN UNDEF ELSE StripWww(h)

normalizeWhitespace(s) == CollapseWs(Trim(s))

NameMax == 80

safeName(s) ==
  IF ~Truthy(s) THEN UNDEF
  ELSE LET v == normalizeWhitespace(s)
       IN IF Len(v) > 0 THEN Slice0(v, NameMax) ELSE UNDEF

\* mutant of kindFromRecon: an input inferred to be a checkbox
kindFromReconInferring(el) ==
  CASE el.type = "button" -> "button"
    [] el.type = "link" -> "link"
    [] el.type = "input" -> "checkbox"
    [] el.type = "select" -> "select"
    [] el.type = "textarea" -> "textarea"
    [] OTHER -> "other"

kindFromRecon(el) ==
  CASE el.type = "button" -> "button"
    [] el.type = "link" -> "link"
    [] el.type = "input" -> "textbox"
    [] el.type = "select" -> "select"
    [] el.type = "textarea" -> "textarea"
    [] OTHER -> "other"

\* mutant of buildName: labelText tried before accessibleName
buildNameLabelFirst(el) ==
  Or(safeName(el.labelText),
  Or(safeName(el.accessibleName),
  Or(safeName(el.ariaLabel),
  Or(safeName(el.name),
  Or(safeName(el.id),
     safeName(el.text))))))

\* mutant of buildName: the tag name as a last resort
buildNameTagFallback(el) ==
  Or(safeName(el.accessibleName),
  Or(safeName(el.labelText),
  Or(safeName(el.ariaLabel),
  Or(safeName(el.name),
  Or(safeName(el.id),
  Or(safeName(el.text),
     safeName(el.tagName)))))))

buildName(el) ==
  Or(safeName(el.accessibleName),
  Or(safeName(el.labelText),
  Or(safeName(el.ariaLabel),
  Or(safeName(el.name),
  Or(safeName(el.id),
     safeName(el.text))))))

\* mutant of PushedLocators: the css hint pushed before the placeholder hint
PushedLocatorsCssFirst(el) ==
  (IF Truthy(el.testId) THEN <<[strategy |-> "testId", value |-> el.testId]>> ELSE <<>>)
  \o (IF Truthy(el.role)
      THEN <<[strategy |-> "role", role |-> el.role, name |-> safeName(el.accessibleName)]>>
      ELSE <<>>)
  \o (IF Truthy(el.labelText)
      THEN <<[strategy |-> "label", value |-> safeName(el.labelText)]>> ELSE <<>>)
  \o (IF Truthy(el.css) THEN <<[strategy |-> "css", value |-> el.css]>> ELSE <<>>)
  \o (IF Truthy(el.placeholder)
      THEN <<[strategy |-> "placeholder", value |-> el.placeholder]>> ELSE <<>>)
  \o (IF Truthy(el.xpath) THEN <<[strategy |-> "xpath", value |-> el.xpath]>> ELSE <<>>)

\* mutant of PushedLocators: the xpath hint pushed before the css hint
PushedLocatorsXpathFirst(el) ==
  (IF Truthy(el.testId) THEN <<[strategy |-> "testId", value |-> el.testId]>> ELSE <<>>)
  \o (IF Truthy(el.role)
      THEN <<[strategy |-> "role", role |-> el.role, name |-> safeName(el.accessibleName)]>>
      ELSE <<>>)
  \o (IF Truthy(el.labelText)
      THEN <<[strategy |-> "label", value |-> safeName(el.labelText)]>> ELSE <<>>)
  \o (IF Truthy(el.placeholder)
      THEN <<[strategy |-> "placeholder", value |-> el.placeholder]>> ELSE <<>>)
  \o (IF Truthy(el.xpath) THEN <<[strategy |-> "xpath", value |-> el.xpath]>> ELSE <<>>)
  \o (IF Truthy(el.css) THEN <<[strategy |-> "css", value |-> el.css]>> ELSE <<>>)

\* the hints pushed by buildLocators, before its final filter
PushedLocators(el) ==
  (IF Truthy(el.testId) THEN <<[strategy |-> "testId", value |-> el.testId]>> ELSE <<>>)
  \o (IF Truthy(el.role)
      THEN <<[strategy |-> "role", role |-> el.role, name |-> safeName(el.accessibleName)]>>
      ELSE <<>>)
  \o (IF Truthy(el.labelText)
      THEN <<[strategy |-> "label", value |-> safeName(el.labelText)]>> ELSE <<>>)
  \o (IF Truthy(el.placeholder)
      THEN <<[strategy |-> "placeholder", value |-> el.placeholder]>> ELSE <<>>)
  \o (IF Truthy(el.css) THEN <<[strategy |-> "css", value |-> el.css]>> ELSE <<>>)
  \o (IF Truthy(el.xpath) THEN <<[strategy |-> "xpath", value |-> el.xpath]>> ELSE <<>>)

\* mutant of KeepLocator: the final filter keeps everything
KeepLocatorAll(l) == TRUE

\* the predicate of the final filter of buildLocators
KeepLocator(l) ==
  IF l.strategy = "role" THEN Truthy(l.role)
  ELSE IF "value" \in DOMAIN l THEN Truthy(l.value)
  ELSE TRUE

buildLocators(el) == SelectSeq(PushedLocators(el), KeepLocator)

\* the recon element types, as the text `${el.type}` puts into an identifier
TypeText(t) ==
  CASE t = "button" -> <<"b","u","t","t","o","n">>
    [] t = "link" -> <<"l","i","n","k">>
    [] t = "input" -> <<"i","n","p","u","t">>
    [] t = "select" -> <<"s","e","l","e","c","t">>
    [] t = "textarea" -> <<"t","e","x","t","a","r","e","a">>
    [] t = "other" -> <<"o","t","h","e","r">>
    [] t = "checkbox" -> <<"c","h","e","c","k","b","o","x">>
    [] t = "radio" -> <<"r","a","d","i","o">>

\* s.replace(/[^a-z0-9]+/g, "-"): every maximal run of other characters
\* becomes one hyphen
HyphenateRuns(s) ==
  LET kept == SelectSeq(Indices(s),
                        LAMBDA i : IsLowerAlnum(s[i]) \/ i = 1 \/ IsLowerAlnum(s[i - 1]))
  IN [k \in DOMAIN kept |-> IF IsLowerAlnum(s[kept[k]]) THEN s[kept[k]] ELSE "-"]

\* s.replace(/^-+|-+$/g, "")
StripLeadingHyphens(s) == DropLeading(s, {"-"})

StripTrailingHyphens(s) == DropTrailing(s, {"-"})

StripHyphens(s) == StripTrailingHyphens(StripLeadingHyphens(s))

SlugMax == 50

ElementDash == <<"e","l","e","m","e","n","t","-">>
Unnamed == <<"u","n","n","a","m","e","d">>

\* mutant of IdBase: the DOM id tried before the test id
IdBaseIdFirst(el, index) ==
  Or(el.id, Or(el.testId, Or(el.name, Or(el.ariaLabel, Or(el.text,
  Or(el.tagName, ElementDash \o NumStr(index)))))))

\* the `base` of stableElementId
IdBase(el, index) ==
  Or(el.testId, Or(el.id, Or(el.name, Or(el.ariaLabel, Or(el.text,
  Or(el.tagName, ElementDash \o NumStr(index)))))))

\* the `slug` of stableElementId
IdSlug(el, index) ==
  Slice0(StripHyphens(HyphenateRuns(toLowerCase(normalizeWhitespace(IdBase(el, index))))),
         SlugMax)

\* mutant of stableElementId: the positional index left out
stableElementIdNoIndex(el, index) ==
  TypeText(el.type) \o <<"-">> \o Or(IdSlug(el, index), Unnamed)

\* mutant of stableElementId: the suffix taken from the clock, not the index alone
stableElementIdClocked(el, index) ==
  TypeText(el.type) \o <<"-">> \o Or(IdSlug(el, index), Unnamed) \o <<"-">>
    \o NumStr(index + clock)

stableElementId(el, index) ==
  TypeText(el.type) \o <<"-">> \o Or(IdSlug(el, index), Unnamed) \o <<"-">> \o NumStr(index)

\* the callback of report.elements.map in buildPageModel (index is 0-based)
ElementModel(el, index) ==
  [ id |-> stableElementId(el, index),
    kind |-> kindFromRecon(el),
    name |-> buildName(el),
    tagName |-> el.tagName,
    role |-> el.role,
    href |-> IF el.type = "link" THEN el.href ELSE UNDEF,
    locators |-> buildLocators(el),
    flags |-> [disabled |-> el.disabled, ariaDisabled |-> el.ariaDisabled] ]

\* the value thrown by buildPageModel for a url that new URL rejects
TypeError == [error |-> "TypeError: Invalid URL"]

\* buildPageModel(report, title): the model, or the TypeError of domainFromUrl
buildPageModel(rep, title) ==
  LET domain == domainFromUrl(rep.url)
  IN IF domain = UNDEF THEN TypeError
     ELSE [ url |-> rep.url,
            domain |-> domain,
            scannedAt |-> rep.scannedAt,
            title |-> title,
            elements |-> [i \in DOMAIN rep.elements |->
                            ElementModel(rep.elements[i], i - 1)] ]

\* writePageModel's file path: path.join(outputDir, `page-model-${domain}-${ts}.json`)
PageModelPath(m, now) == [dir |-> "reports", domain |-> m.domain, ts |-> now]

\* fs.writeFile: the file at `path` is created or replaced
WriteFile(fs, path, content) ==
  {f \in fs : f.path # path} \cup {[path |-> path, content |-> content]}

\* the scanUrl invocations
Procs == {"s1", "s2"}

\* an invocation that is never made
\* the two revisions of recon/scanPage.ts in the repository: the one the cli
\* imports and the documented one
Revisions == {"scanPage.ts", "part_006"}

ScanOff ==
  [pc |-> "off", url |-> UNDEF, rev |-> "none", browser |-> "none", kept |-> <<>>,
   outcome |-> NONE, outPath |-> NONE]

(***************************************************************************)
(* Inputs: recon reports as the gen command may find them in its input     *)
(* file.  Every optional field is absent, empty, blank or filled.          *)
(***************************************************************************)
S_zip == <<"z","i","p">>
S_ZipCode == <<"Z","i","p"," ","C","o","d","e">>
S_ZipCodeLoose == <<" ","Z","i","p"," ","\t","C","o","d","e"," ">>
S_textbox == <<"t","e","x","t","b","o","x">>
S_input == <<"i","n","p","u","t">>
S_button == <<"b","u","t","t","o","n">>
S_div == <<"d","i","v">>
S_a == <<"a">>
S_cssZip == <<"i","n","p","u","t","[","n","a","m","e","=","z","i","p","]">>
S_xpZip == <<"/","/","*","[","@","i","d","=","z","i","p","]">>
S_Submit == <<"S","u","b","m","i","t">>
S_submitBtn == <<"s","u","b","m","i","t","-","b","t","n">>
S_cssPrimary == <<"b","u","t","t","o","n",".","p","r","i","m","a","r","y">>
S_blank == <<" ">>

BaseEl ==
  [ type |-> "other", tagName |-> S_div,
    role |-> UNDEF, accessibleName |-> UNDEF, labelText |-> UNDEF, testId |-> UNDEF,
    text |-> UNDEF, id |-> UNDEF, name |-> UNDEF, href |-> UNDEF, placeholder |-> UNDEF,
    ariaLabel |-> UNDEF, disabled |-> UNDEF, ariaDisabled |-> UNDEF,
    typeAttr |-> UNDEF, value |-> UNDEF, css |-> UNDEF, xpath |-> UNDEF ]

\* elements that vary the signals buildLocators reads
LocatorEls ==
  { [BaseEl EXCEPT !.type = "input", !.tagName = S_input,
       !.testId = t, !.role = r, !.accessibleName = n, !.labelText = l,
       !.placeholder = p, !.css = c, !.xpath = x] :
      t \in {UNDEF, <<>>, S_zip}, r \in {UNDEF, <<>>, S_textbox},
      n \in {UNDEF, S_blank, S_ZipCode}, l \in {UNDEF, <<>>, S_blank, S_ZipCodeLoose},
      p \in {UNDEF, <<>>, S_ZipCode}, c \in {UNDEF, <<>>, S_cssZip},
      x \in {UNDEF, <<>>, S_xpZip} }

\* elements that vary the signals buildName reads
NameEls ==
  { [BaseEl EXCEPT !.type = "button", !.tagName = S_button, !.css = S_button,
       !.accessibleName = n, !.labelText = l, !.ariaLabel = a,
       !.name = m, !.id = d, !.text = t] :
      n \in {UNDEF, S_blank, <<"A">>}, l \in {UNDEF, S_blank, <<"B">>},
      a \in {UNDEF, <<>>, <<"C">>}, m \in {UNDEF, <<"N">>},
      d \in {UNDEF, <<"D">>}, t \in {UNDEF, <<"\n">>, <<"E"," "," ","e">>} }

\* the button of the spec's scenario: accessibleName, testId and css only
ScenarioButton ==
  [BaseEl EXCEPT !.type = "button", !.tagName = S_button,
     !.accessibleName = S_Submit, !.testId = S_submitBtn, !.css = S_cssPrimary]

\* one element per recon type (and two types no scanner emits), as in the
\* kind-mapping test, plus elements sharing every naming signal
TypeEls ==
  { [BaseEl EXCEPT !.type = t, !.tagName = S_a, !.href = <<"/","x">>, !.css = S_a,
       !.disabled = d, !.ariaDisabled = d] :
      t \in {"button", "link", "input", "select", "textarea", "other", "checkbox", "radio"},
      d \in {UNDEF} }
  \cup {ScenarioButton}

U_wwwExamplePath ==
  SchemeHttps \o <<"w","w","w",".","e","x","a","m","p","l","e",".","c","o","m","/","p","a","t","h">>
U_shopExample ==
  SchemeHttps \o <<"s","h","o","p",".","e","x","a","m","p","l","e",".","c","o",".","u","k">>
U_wwwWww == SchemeHttps \o <<"w","w","w",".","w","w","w",".","e",".","c","o">>
U_upperWww == SchemeHttps \o <<"W","W","W",".","E",".","c","o">>
U_wwwx == SchemeHttp \o <<"w","w","w","x",".","c","o">>
U_innerWww == SchemeHttp \o <<"a",".","w","w","w",".","b",":","8","0","/","p","?","q","#","f">>
U_noScheme == <<"w","w","w",".","e",".","c","o">>
U_words == <<"n","o","t"," ","a"," ","u","r","l">>
U_spaceHost == SchemeHttps \o <<"a"," ","b">>

GoodUrls == {U_wwwExamplePath, U_shopExample, U_wwwWww, U_upperWww, U_wwwx, U_innerWww}
BadUrls == {UNDEF, <<>>, SchemeHttps, U_noScheme, U_words, U_spaceHost}
Urls == GoodUrls \cup BadUrls

S_scannedAt == <<"2","0","2","6","-","0","1","-","1","8">>

MaxElems == 2

SeqsUpTo(S, n) == UNION {[1..k -> S] : k \in 0..n}

Report(url, els) ==
  [url |-> url, scannedAt |-> S_scannedAt, elements |-> els]

\* one-element reports over the large element families, at a fixed url
SingleReports == {Report(U_wwwExamplePath, <<e>>) : e \in LocatorEls \cup NameEls}

\* reports of up to MaxElems elements at every url
MultiReports == {Report(u, els) : u \in Urls, els \in SeqsUpTo(TypeEls, MaxElems)}

(***************************************************************************)
(* The gen command (registerGenCommand)                                    *)
(***************************************************************************)
\* the observer notes a call made on `probe`: its title, its result, the time
Record(hist, r, t, result) ==
  IF r = probe THEN hist \cup {[title |-> t, result |-> result, at |-> clock]} ELSE hist

\* await fs.readFile(inputPath); JSON.parse(raw)
GenReadFile ==
  /\ genPc = "start"
  /\ report' = inputFile
  /\ genPc' = "loaded"
  /\ UNCHANGED <<inputFile, model, files, clock, probe, history, scanVars>>

\* buildPageModel(report), then writePageModel up to its await fs.mkdir.
\* A throw rejects the action's promise: nothing after it runs.
GenBuild ==
  /\ genPc = "loaded"
  /\ LET m == buildPageModel(report, UNDEF)
     IN /\ history' = Record(history, report, UNDEF, m)
        /\ IF m = TypeError
           THEN genPc' = "failed" /\ model' = NONE
           ELSE genPc' = "mkdir" /\ model' = m
  /\ UNCHANGED <<inputFile, report, files, clock, probe, scanVars>>

\* writePageModel after fs.mkdir: the timestamped name, fs.writeFile, the log line
GenWriteFile ==
  /\ genPc = "mkdir"
  /\ files' = WriteFile(files, PageModelPath(model, clock), model)
  /\ genPc' = "done"
  /\ UNCHANGED <<inputFile, report, model, clock, probe, history, scanVars>>

InitCommon ==
  /\ report = NONE
  /\ model = NONE
  /\ genPc = "start"
  /\ files = {}
  /\ clock = 0
  /\ probe = inputFile
  /\ history = {}
  /\ page = [p \in Procs |-> <<>>]
  /\ scan = [p \in Procs |-> ScanOff]

Init ==
  /\ inputFile \in SingleReports \cup MultiReports
  /\ InitCommon

Next == GenReadFile \/ GenBuild \/ GenWriteFile

Spec == Init /\ [][Next]_vars

(***************************************************************************)
(* The gen command on sparse reports: one element with every combination   *)
(* of present and absent optional fields                                   *)
(***************************************************************************)
SparseEls ==
  { [ type |-> "link", tagName |-> S_a,
      role |-> f[1], accessibleName |-> f[2], labelText |-> f[3], testId |-> f[4],
      text |-> f[5], id |-> f[6], name |-> f[7], href |-> f[8], placeholder |-> f[9],
      ariaLabel |-> f[10], disabled |-> f[11], ariaDisabled |-> f[12],
      typeAttr |-> UNDEF, value |-> UNDEF, css |-> f[13], xpath |-> f[14] ] :
      f \in [1..14 -> {UNDEF, S_zip}] }

SparseReports ==
  {Report(U_wwwExamplePath, <<e>>) : e \in SparseEls}
  \cup {Report(u, <<BaseEl>>) : u \in BadUrls}

SparseInit ==
  /\ inputFile \in SparseReports
  /\ InitCommon

SparseSpec == SparseInit /\ [][Next]_vars

(***************************************************************************)
(* The gen command on reports that exercise names and identifiers          *)
(***************************************************************************)
\* elements that vary the signals stableElementId reads
SlugSourceEls ==
  { [BaseEl EXCEPT !.type = "button", !.tagName = S_button,
       !.testId = t, !.id = d, !.name = m, !.ariaLabel = a, !.text = x] :
      t \in {UNDEF, <<>>, S_blank, S_ZipCodeLoose}, d \in {UNDEF, <<>>, <<"D","-","1">>},
      m \in {UNDEF, <<>>, <<"N">>}, a \in {UNDEF, <<"!","?">>, <<"C"," ","c">>},
      x \in {UNDEF, <<"\n">>, <<"E","_","e">>} }

\* strings whose normal form is about as long as a limit, with a blank or a
\* punctuation mark at or next to the cut
LongTexts(limit) ==
  {Rep("a", k) : k \in (limit - 1)..(limit + 1)}
  \cup {Rep("a", k) \o <<" ", "b">> : k \in (limit - 2)..limit}
  \cup {Rep("a", k) \o <<" ", " ", "B", "!">> : k \in (limit - 3)..(limit - 1)}
  \cup {<<"-", "-">> \o Rep("A", k) \o <<".", "b", " ">> : k \in (limit - 2)..limit}

\* elements whose identifier or name source reaches the length limits
LongEls ==
  {[BaseEl EXCEPT !.testId = s] : s \in LongTexts(SlugMax)}
  \cup {[BaseEl EXCEPT !.text = s] : s \in LongTexts(SlugMax) \cup LongTexts(NameMax)}
  \cup {[BaseEl EXCEPT !.accessibleName = s] : s \in LongTexts(NameMax)}
  \cup {[BaseEl EXCEPT !.labelText = s, !.role = S_textbox] : s \in LongTexts(NameMax)}

\* elements that share a type and every naming signal, or differ only in
\* digits at the end of the slug
TwinEls ==
  { ScenarioButton,
    [BaseEl EXCEPT !.type = "button", !.tagName = S_button],
    [BaseEl EXCEPT !.type = "button", !.testId = <<"x">>],
    [BaseEl EXCEPT !.type = "button", !.testId = <<"x", "-", "1">>],
    [BaseEl EXCEPT !.type = "button", !.testId = <<"x", "-", "0">>],
    [BaseEl EXCEPT !.type = "button", !.testId = <<"1">>],
    [BaseEl EXCEPT !.type = "other", !.tagName = S_blank] }

NamingReports ==
  {Report(U_wwwExamplePath, <<e>>) : e \in SlugSourceEls \cup LongEls}
  \cup {Report(U_shopExample, els) : els \in SeqsUpTo(TwinEls, MaxElems)}

NamingInit ==
  /\ inputFile \in NamingReports
  /\ InitCommon

NamingSpec == NamingInit /\ [][Next]_vars

(***************************************************************************)
(* The gen command run repeatedly while the clock advances and the input   *)
(* file is rewritten, and buildPageModel called directly (as the unit      *)
(* tests do), with or without a title.                                     *)
(***************************************************************************)
MaxClock == 1

S_Title == <<"H","o","m","e">>
Titles == {UNDEF, S_Title}

FullInput ==
  [BaseEl EXCEPT !.type = "input", !.tagName = S_input, !.testId = S_zip,
     !.role = S_textbox, !.accessibleName = S_ZipCode, !.labelText = S_ZipCodeLoose,
     !.placeholder = S_ZipCode, !.css = S_cssZip, !.xpath = S_xpZip,
     !.disabled = JTRUE, !.ariaDisabled = JFALSE]

\* the reports a run of gen starts from
GenReports ==
  { Report(U_wwwExamplePath, <<ScenarioButton, ScenarioButton>>),
    Report(U_upperWww, <<FullInput>>),
    Report(U_words, <<ScenarioButton>>) }

\* the report another scan leaves in the input file
OtherReport == Report(U_shopExample, <<BaseEl>>)

\* the command is invoked again (a new process)
GenRestart ==
  /\ genPc \in {"done", "failed"}
  /\ genPc' = "start"
  /\ report' = NONE
  /\ model' = NONE
  /\ UNCHANGED <<inputFile, files, clock, probe, history, scanVars>>

\* time passes
Tick ==
  /\ clock < MaxClock
  /\ clock' = clock + 1
  /\ UNCHANGED <<genVars, scanVars>>

\* the input file is replaced by another report, or by the first one again
EditInput ==
  /\ inputFile' = (IF inputFile = probe THEN OtherReport ELSE probe)
  /\ UNCHANGED <<report, model, genPc, files, clock, probe, history, scanVars>>

\* a direct call buildPageModel(probe, t), as in tests/buildPageModel.spec.ts
ApiCall ==
  /\ \E t \in Titles : history' = Record(history, probe, t, buildPageModel(probe, t))
  /\ UNCHANGED <<inputFile, report, model, genPc, files, clock, probe, scanVars>>

GenInit ==
  /\ inputFile \in GenReports
  /\ InitCommon

GenNext == Next \/ GenRestart \/ Tick \/ EditInput \/ ApiCall

GenSpec == GenInit /\ [][GenNext]_vars

(***************************************************************************)
(* The scanner, scanUrl (recon/scanPage.ts).  The repository holds two     *)
(* revisions of it, which differ in normalizeType, accessibleName and the  *)
(* typeAttr and value fields; an operator that depends on the revision     *)
(* takes it as `rev`.  The line numbers of the model map are those of the  *)
(* documented revision.  A page is a sequence of                           *)
(* element nodes in document order; parent is the index of the parent      *)
(* element, 0 for the root.  An attribute that is not set is UNDEF (null). *)
(***************************************************************************)
S_none == <<"n","o","n","e">>
S_hidden == <<"h","i","d","d","e","n">>
S_true == <<"t","r","u","e">>
S_text == <<"t","e","x","t">>
S_label == <<"l","a","b","e","l">>
S_span == <<"s","p","a","n">>
S_summary == <<"s","u","m","m","a","r","y">>
S_details == <<"d","e","t","a","i","l","s">>
S_select == <<"s","e","l","e","c","t">>
S_textarea == <<"t","e","x","t","a","r","e","a">>
S_link == <<"l","i","n","k">>
S_submit == <<"s","u","b","m","i","t">>
S_reset == <<"r","e","s","e","t">>
S_combobox == <<"c","o","m","b","o","b","o","x">>
S_listbox == <<"l","i","s","t","b","o","x">>

AllTypes == <<"button", "link", "input", "select", "textarea", "other">>

INTERACTIVE_ROLES ==
  { S_button, S_link, S_textbox, <<"c","h","e","c","k","b","o","x">>, <<"r","a","d","i","o">>, <<"s","w","i","t","c","h">>, S_combobox, S_listbox,
    <<"o","p","t","i","o","n">>, <<"m","e","n","u","i","t","e","m">>, <<"t","a","b">>, <<"s","l","i","d","e","r">>, <<"s","p","i","n","b","u","t","t","o","n">> }

\* mutant of isVisible: the aria-hidden test left out
isVisibleIgnoringAria(n) ==
  /\ ~(n.display = S_none \/ n.visibility = S_hidden \/ n.opacity = <<"0">>)
  /\ ~n.hidden
  /\ ~(n.width = 0 \/ n.height = 0)

isVisible(n) ==
  /\ ~(n.display = S_none \/ n.visibility = S_hidden \/ n.opacity = <<"0">>)
  /\ ~n.hidden
  /\ ~(n.width = 0 \/ n.height = 0)
  /\ n.ariaHidden # S_true

isDisabled(n) ==
  [ disabled |-> n.disabledProp \/ n.disabled # UNDEF,
    ariaDisabled |-> n.ariaDisabled = S_true ]

\* Number(s) >= 0 for an attribute value: "" and blanks are 0; an optional
\* sign, digits and at most one decimal point are a number; -0 >= 0 holds;
\* anything else is NaN, for which every comparison is false.
NumberIsNonNegative(s) ==
  LET t == Trim(s)
      signed == t # <<>> /\ Head(t) \in {"+", "-"}
      body == IF signed THEN Tail(t) ELSE t
      digits == SelectSeq(body, LAMBDA c : c # ".")
      numeric == /\ digits # <<>>
                 /\ \A i \in DOMAIN digits : digits[i] \in Range(Digits)
                 /\ Len(body) - Len(digits) <= 1
      zero == \A i \in DOMAIN digits : digits[i] = "0"
  IN IF t = <<>> THEN TRUE
     ELSE numeric /\ (Head(t) = "-" => zero)

\* typeof e.onclick === "function" || e.getAttribute("onclick") !== null
hasClickHandler(n) == n.onclickFn \/ n.onclick # UNDEF

\* tag === "summary" && e.parentElement?.tagName.toLowerCase() === "details"
SummaryOfDetails(dom, i) ==
  /\ dom[i].tag = S_summary
  /\ dom[i].parent # 0
  /\ dom[dom[i].parent].tag = S_details

nativeInteractive(dom, i) ==
  LET n == dom[i]
  IN \/ n.tag = S_button
     \/ (n.tag = S_a /\ n.href # UNDEF)
     \/ n.tag = S_input
     \/ n.tag = S_select
     \/ n.tag = S_textarea
     \/ SummaryOfDetails(dom, i)

isCandidate(dom, i) ==
  LET n == dom[i]
      role == toLowerCase(Or(n.role, <<>>))
      hasTabindex == n.tabindex # UNDEF /\ NumberIsNonNegative(n.tabindex)
      contentEditable == n.contenteditable = S_true
      ariaInteractive == role # <<>> /\ role \in INTERACTIVE_ROLES
  IN IF ~isVisible(n) THEN FALSE
     ELSE nativeInteractive(dom, i) \/ ariaInteractive \/ hasTabindex
            \/ hasClickHandler(n) \/ contentEditable

\* mutant of PostFilter: the container filter removed
PostFilterNothing(n) == TRUE

\* the predicate of the de-dupe filter: div and span stay only with a role,
\* a tabindex or a click handler
PostFilter(n) ==
  IF n.tag = S_div \/ n.tag = S_span
  THEN Truthy(n.role) \/ Truthy(n.tabindex) \/ hasClickHandler(n)
  ELSE TRUE

\* indices of the nodes of document.querySelectorAll("*") that pass both filters
Filtered(dom) ==
  SelectSeq([i \in DOMAIN dom |-> i], LAMBDA i : isCandidate(dom, i) /\ PostFilter(dom[i]))

\* el.textContent: the element's own text followed by that of its children
RECURSIVE textContent(_, _)
textContent(dom, i) ==
  LET kids == SelectSeq([j \in DOMAIN dom |-> j], LAMBDA j : dom[j].parent = i)
      Cat[k \in 0..Len(kids)] ==
        IF k = 0 THEN dom[i].text ELSE Cat[k - 1] \o textContent(dom, kids[k])
  IN Cat[Len(kids)]

TextMax == 200

getText(dom, i) ==
  LET txt == CollapseWs(Trim(textContent(dom, i)))
  IN IF Truthy(txt) THEN Slice0(txt, TextMax) ELSE UNDEF

\* value.replace(/(["\\.#:[\]])/g, "\\$1")
RECURSIVE cssEscape(_)
cssEscape(v) ==
  IF v = <<>> THEN <<>>
  ELSE (IF Head(v) \in {"\"", "\\", ".", "#", ":", "[", "]"}
        THEN <<"\\", Head(v)>> ELSE <<Head(v)>>) \o cssEscape(Tail(v))

\* data-testid || data-test || data-test-id
TestIdOf(n) == Or(n.dataTestid, Or(n.dataTest, n.dataTestId))

\* mutant of bestCss: the DOM id tried before the test-id attributes
bestCssIdFirst(n) ==
  IF Truthy(n.id) THEN <<"#">> \o cssEscape(n.id)
  ELSE IF Truthy(TestIdOf(n)) THEN <<"[","d","a","t","a","-","t","e","s","t","i","d","=","\"">> \o cssEscape(TestIdOf(n)) \o <<"\"","]">>
  ELSE n.tag

bestCss(n) ==
  LET testId == TestIdOf(n)
  IN IF Truthy(testId)
     THEN <<"[","d","a","t","a","-","t","e","s","t","i","d","=","\"">> \o cssEscape(testId) \o <<"\"","]",","," ","[","d","a","t","a","-","t","e","s","t","=","\"">> \o cssEscape(testId)
            \o <<"\"","]",","," ","[","d","a","t","a","-","t","e","s","t","-","i","d","=","\"">> \o cssEscape(testId) \o <<"\"","]">>
     ELSE IF Truthy(n.id) THEN <<"#">> \o cssEscape(n.id)
     ELSE IF Truthy(n.name) THEN n.tag \o <<"[","n","a","m","e","=","\"">> \o cssEscape(n.name) \o <<"\"","]">>
     ELSE IF Truthy(n.ariaLabel)
     THEN n.tag \o <<"[","a","r","i","a","-","l","a","b","e","l","=","\"">> \o cssEscape(n.ariaLabel) \o <<"\"","]">>
     ELSE n.tag

\* mutant of SiblingIndex: every preceding sibling counted, whatever its tag
SiblingIndexAnyTag(dom, i) ==
  1 + Cardinality({j \in 1..(i - 1) : dom[j].parent = dom[i].parent})

\* 1 + the number of preceding element siblings with the same tag
SiblingIndex(dom, i) ==
  1 + Cardinality({j \in 1..(i - 1) : dom[j].parent = dom[i].parent /\ dom[j].tag = dom[i].tag})

\* mutant of PositionalPath: the segment of the element alone, without its ancestors
PositionalPathOfLeaf(dom, i) ==
  <<"/">> \o dom[i].tag \o <<"[">> \o NumStr(SiblingIndex(dom, i)) \o <<"]">>

\* the positional path: one /tag[index] per element from the root down to i
RECURSIVE PositionalPath(_, _)
PositionalPath(dom, i) ==
  (IF dom[i].parent = 0 THEN <<>> ELSE PositionalPath(dom, dom[i].parent))
  \o <<"/">> \o dom[i].tag \o <<"[">> \o NumStr(SiblingIndex(dom, i)) \o <<"]">>

xpathFor(dom, i) ==
  IF Truthy(dom[i].id) THEN <<"/","/","*","[","@","i","d","=","\"">> \o dom[i].id \o <<"\"","]">>
  ELSE PositionalPath(dom, i)

\* e.closest("label"): the nearest label among the element and its ancestors, 0 if none
RECURSIVE ClosestLabel(_, _)
ClosestLabel(dom, i) ==
  IF i = 0 THEN 0
  ELSE IF dom[i].tag = S_label THEN i
  ELSE ClosestLabel(dom, dom[i].parent)

\* document.querySelector(`label[for="${CSS.escape(id)}"]`): the first one, 0 if none
LabelFor(dom, id) ==
  LET hits == {j \in DOMAIN dom : dom[j].tag = S_label /\ dom[j].for = id}
  IN IF hits = {} THEN 0 ELSE CHOOSE j \in hits : \A k \in hits : j <= k

findAssociatedLabelText(dom, i) ==
  LET id == dom[i].id
      lbl == IF Truthy(id) THEN LabelFor(dom, id) ELSE 0
      t == IF lbl = 0 THEN UNDEF ELSE Trim(textContent(dom, lbl))
      parentLabel == ClosestLabel(dom, i)
      t2 == IF parentLabel = 0 THEN UNDEF ELSE Trim(textContent(dom, parentLabel))
  IN IF Truthy(t) THEN Slice0(CollapseWs(t), TextMax)
     ELSE IF Truthy(t2) THEN Slice0(CollapseWs(t2), TextMax)
     ELSE UNDEF

\* the value of a submit, button or reset input names it in the documented
\* revision only
accessibleName(dom, i, rev) ==
  LET n == dom[i]
      label == findAssociatedLabelText(dom, i)
      t == toLowerCase(Or(n.type, S_text))
  IN IF Truthy(n.ariaLabel) THEN n.ariaLabel
     ELSE IF Truthy(label) THEN label
     ELSE IF rev = "part_006" /\ n.tag = S_input /\ t \in {S_submit, S_button, S_reset}
             /\ Truthy(n.value)
     THEN n.value
     ELSE IF Truthy(n.alt) THEN n.alt
     ELSE getText(dom, i)

JBool(b) == IF b THEN JTRUE ELSE JFALSE

\* the RawEl that page.evaluate returns for node i
RawEl(dom, i, rev) ==
  LET n == dom[i]
  IN [ tag |-> n.tag,
       role |-> Or(n.role, UNDEF),
       typeAttr |-> IF n.tag = S_input THEN Or(n.type, S_text) ELSE UNDEF,
       value |-> IF rev = "part_006" /\ n.tag = S_input THEN Or(n.value, UNDEF) ELSE UNDEF,
       text |-> getText(dom, i),
       id |-> Or(n.id, UNDEF),
       name |-> Or(n.name, UNDEF),
       href |-> IF n.tag = S_a THEN Or(n.href, UNDEF) ELSE UNDEF,
       placeholder |-> IF n.tag = S_input \/ n.tag = S_textarea
                       THEN Or(n.placeholder, UNDEF) ELSE UNDEF,
       ariaLabel |-> Or(n.ariaLabel, UNDEF),
       ariaDisabled |-> JBool(isDisabled(n).ariaDisabled),
       disabled |-> JBool(isDisabled(n).disabled),
       testId |-> Or(TestIdOf(n), UNDEF),
       labelText |-> findAssociatedLabelText(dom, i),
       accessibleName |-> accessibleName(dom, i, rev),
       css |-> bestCss(n),
       xpath |-> xpathFor(dom, i) ]

\* mutant of normalizeType: the tag rules tried before the role
normalizeTypeTagFirst(raw, rev) ==
  LET role == IF raw.role = UNDEF THEN UNDEF ELSE toLowerCase(raw.role)
      tag == toLowerCase(raw.tag)
  IN IF tag = S_button THEN "button"
     ELSE IF tag = S_a /\ Truthy(raw.href) THEN "link"
     ELSE IF tag = S_select THEN "select"
     ELSE IF tag = S_textarea THEN "textarea"
     ELSE IF tag = S_input THEN "input"
     ELSE IF Truthy(role) /\ role \in INTERACTIVE_ROLES
     THEN IF role = S_textbox THEN "input"
          ELSE IF role = S_combobox \/ role = S_listbox THEN "select"
          ELSE IF role = S_link THEN "link"
          ELSE IF role = S_button THEN "button"
          ELSE "other"
     ELSE "other"

normalizeType(raw, rev) ==
  LET role == IF raw.role = UNDEF THEN UNDEF ELSE toLowerCase(raw.role)
      tag == toLowerCase(raw.tag)
      inputType == IF raw.typeAttr = UNDEF THEN UNDEF ELSE toLowerCase(raw.typeAttr)
  IN IF Truthy(role) /\ role \in INTERACTIVE_ROLES
     THEN IF role = S_textbox THEN "input"
          ELSE IF role = S_combobox \/ role = S_listbox THEN "select"
          ELSE IF role = S_link THEN "link"
          ELSE IF role = S_button THEN "button"
          ELSE "other"
     ELSE IF tag = S_button THEN "button"
     ELSE IF tag = S_a /\ Truthy(raw.href) THEN "link"
     ELSE IF tag = S_select THEN "select"
     ELSE IF tag = S_textarea THEN "textarea"
     ELSE IF tag = S_input
     THEN IF rev = "part_006" /\ inputType \in {S_button, S_submit, S_reset}
          THEN "button" ELSE "input"
     ELSE "other"

\* the ReconElement made from a RawEl (disabled and ariaDisabled are not copied)
ReconElement(r, rev) ==
  [ type |-> normalizeType(r, rev),
    tagName |-> r.tag,
    typeAttr |-> IF rev = "part_006" THEN r.typeAttr ELSE UNDEF,
    value |-> r.value,
    text |-> r.text,
    id |-> r.id,
    name |-> r.name,
    href |-> IF r.tag = S_a THEN r.href ELSE UNDEF,
    ariaLabel |-> r.ariaLabel,
    placeholder |-> r.placeholder,
    css |-> r.css,
    xpath |-> r.xpath,
    role |-> r.role,
    testId |-> r.testId,
    accessibleName |-> r.accessibleName,
    labelText |-> r.labelText,
    disabled |-> UNDEF,
    ariaDisabled |-> UNDEF ]

\* elements.reduce(...): a count for every type that occurs
RECURSIVE CountTypes(_)
CountTypes(els) ==
  IF els = <<>> THEN << >>
  ELSE LET acc == CountTypes(SubSeq(els, 1, Len(els) - 1))
           t == els[Len(els)].type
       IN [k \in DOMAIN acc \cup {t} |->
             IF k = t THEN (IF t \in DOMAIN acc THEN acc[t] ELSE 0) + 1 ELSE acc[k]]

\* mutant of ZeroFill: the loop over allTypes left out
ZeroFillNothing(counts) == counts

\* for (const t of allTypes) counts[t] = counts[t] ?? 0
ZeroFill(counts) ==
  [k \in DOMAIN counts \cup Range(AllTypes) |-> IF k \in DOMAIN counts THEN counts[k] ELSE 0]

\* the report scanUrl returns for a page, at time `now`
ScanReport(url, dom, now, rev) ==
  LET kept == Filtered(dom)
      elements == [k \in DOMAIN kept |-> ReconElement(RawEl(dom, kept[k], rev), rev)]
  IN [ url |-> url,
       scannedAt |-> NumStr(now),
       counts |-> ZeroFill(CountTypes(elements)),
       elements |-> elements ]

(***************************************************************************)
(* Pages to scan                                                           *)
(***************************************************************************)
S_html == <<"h","t","m","l">>
S_body == <<"b","o","d","y">>
S_p == <<"p">>
S_block == <<"b","l","o","c","k">>
S_visible == <<"v","i","s","i","b","l","e">>
S_checkbox == <<"c","h","e","c","k","b","o","x">>
S_presentation == <<"p","r","e","s","e","n","t","a","t","i","o","n">>
S_go == <<"G","o">>
S_email == <<"e","m","a","i","l">>

\* an element with no attribute set, rendered 10 by 10, child of <body>
BaseNode ==
  [ tag |-> S_div, parent |-> 2, text |-> <<>>,
    role |-> UNDEF, tabindex |-> UNDEF, onclick |-> UNDEF, contenteditable |-> UNDEF,
    href |-> UNDEF, type |-> UNDEF, value |-> UNDEF, alt |-> UNDEF, id |-> UNDEF,
    name |-> UNDEF, ariaLabel |-> UNDEF, ariaHidden |-> UNDEF, ariaDisabled |-> UNDEF,
    disabled |-> UNDEF, placeholder |-> UNDEF, dataTestid |-> UNDEF, dataTest |-> UNDEF,
    dataTestId |-> UNDEF, for |-> UNDEF,
    onclickFn |-> FALSE, hidden |-> FALSE, disabledProp |-> FALSE,
    display |-> S_block, visibility |-> S_visible, opacity |-> <<"1">>,
    width |-> 10, height |-> 10 ]

HtmlNode == [BaseNode EXCEPT !.tag = S_html, !.parent = 0]
BodyNode == [BaseNode EXCEPT !.tag = S_body, !.parent = 1]

\* <html><body> followed by the given elements
Page(nodes) == <<HtmlNode, BodyNode>> \o nodes

\* elements that vary what the candidate test and the container filter read
SignalNodes ==
  { [BaseNode EXCEPT !.tag = t, !.role = r, !.tabindex = x, !.onclick = a,
       !.onclickFn = f, !.contenteditable = c, !.display = d, !.text = S_go] :
      t \in {S_div, S_span, S_p, S_button},
      r \in {UNDEF, <<>>, S_checkbox, S_presentation},
      x \in {UNDEF, <<>>, <<"0">>, <<"-","1">>, <<"x">>},
      a \in {UNDEF, <<>>}, f \in BOOLEAN, c \in {UNDEF, S_true},
      d \in {S_block, S_none} }

\* one element of each recon type, and elements no report should hold
TypeNodes ==
  { [BaseNode EXCEPT !.tag = S_button, !.text = S_go],
    [BaseNode EXCEPT !.tag = S_a, !.href = <<"/","x">>, !.text = S_go],
    [BaseNode EXCEPT !.tag = S_a, !.text = S_go, !.onclickFn = TRUE],
    [BaseNode EXCEPT !.tag = S_input, !.name = S_email, !.placeholder = S_email],
    [BaseNode EXCEPT !.tag = S_input, !.type = S_submit, !.value = S_go],
    [BaseNode EXCEPT !.tag = S_select, !.id = S_zip],
    [BaseNode EXCEPT !.tag = S_textarea, !.ariaLabel = S_ZipCode],
    [BaseNode EXCEPT !.tag = S_div, !.role = S_checkbox, !.dataTest = S_zip],
    [BaseNode EXCEPT !.tag = S_div, !.text = S_go],
    [BaseNode EXCEPT !.tag = S_button, !.text = S_go, !.hidden = TRUE] }

\* role attribute values: every interactive role, some in upper or mixed
\* case, roles outside the set, the empty string, none
RoleValues ==
  INTERACTIVE_ROLES
  \cup {<<"B","U","T","T","O","N">>, <<"L","i","n","k">>, <<"T","e","x","t","B","o","x">>, <<"L","i","s","t","B","o","x">>, <<"C","h","e","c","k","b","o","x">>}
  \cup {S_presentation, <<"b","a","n","n","e","r">>, <<>>, UNDEF}

\* focusable elements of each tag, with each role
RoleNodes ==
  { [BaseNode EXCEPT !.tag = t[1], !.href = t[2], !.type = t[3], !.role = r,
       !.tabindex = <<"0">>] :
      t \in { <<S_div, UNDEF, UNDEF>>, <<S_p, UNDEF, UNDEF>>, <<S_button, UNDEF, UNDEF>>,
              <<S_a, <<"/","x">>, UNDEF>>, <<S_select, UNDEF, UNDEF>>,
              <<S_textarea, UNDEF, UNDEF>>, <<S_input, UNDEF, S_submit>>,
              <<S_input, UNDEF, UNDEF>> },
      r \in RoleValues }

\* inputs of each kind of type attribute, anchors of each kind of href
TagNodes ==
  { [BaseNode EXCEPT !.tag = S_input, !.type = t, !.role = r, !.value = S_go] :
      t \in {UNDEF, <<>>, S_text, S_submit, S_button, S_reset, <<"S","U","B","M","I","T">>, <<"R","e","s","e","t">>,
             S_checkbox, <<"i","m","a","g","e">>},
      r \in {UNDEF, S_presentation} }
  \cup { [BaseNode EXCEPT !.tag = S_a, !.href = h, !.onclickFn = f, !.text = S_go] :
           h \in {UNDEF, <<>>, <<"#">>, <<"/","x">>}, f \in BOOLEAN }

\* buttons that vary what isVisible reads
VisibilityNodes ==
  { [BaseNode EXCEPT !.tag = S_button, !.text = S_go, !.display = d, !.visibility = v,
       !.opacity = o, !.hidden = h, !.width = w, !.height = g, !.ariaHidden = a] :
      d \in {S_block, S_none}, v \in {S_visible, S_hidden}, o \in {<<"1">>, <<"0">>},
      h \in BOOLEAN, w \in {0, 10}, g \in {0, 10}, a \in {UNDEF, S_true, <<"f","a","l","s","e">>} }

\* buttons that vary what isDisabled reads
DisabledNodes ==
  { [BaseNode EXCEPT !.tag = S_button, !.text = S_go, !.disabledProp = dp,
       !.disabled = d, !.ariaDisabled = a] :
      dp \in BOOLEAN, d \in {UNDEF, <<>>}, a \in {UNDEF, S_true, <<"f","a","l","s","e">>} }

\* inputs that vary what bestCss reads
CssNodes ==
  { [BaseNode EXCEPT !.tag = S_input, !.dataTestid = a, !.dataTest = b, !.dataTestId = c,
       !.id = d, !.name = e, !.ariaLabel = f] :
      a \in {UNDEF, <<>>, <<"t","1">>}, b \in {UNDEF, <<"t","2">>}, c \in {UNDEF, <<"t",".","3">>},
      d \in {UNDEF, <<>>, <<"a",".","b">>}, e \in {UNDEF, <<>>, <<"q">>}, f \in {UNDEF, <<>>, <<"Z","i","p">>} }

MaxNodes == 2

\* the elements of the trees: two tags, one of them also with an id
TreeNodes ==
  { [BaseNode EXCEPT !.tag = S_button, !.text = S_go],
    [BaseNode EXCEPT !.tag = S_a, !.href = <<"/","x">>, !.text = S_go],
    [BaseNode EXCEPT !.tag = S_button, !.id = S_zip, !.text = S_go] }

\* i and its ancestors in the listing whose parents are given by par (body is 2)
RECURSIVE Chain(_, _)
Chain(par, i) == IF i <= 2 THEN {2} ELSE {i} \cup Chain(par, par[i])

\* the trees of up to MaxNodes + 1 elements under <body>, listed in document
\* order: each element is a child of the one before it or of one of its ancestors
TreePages ==
  UNION { { Page([i \in 1..k |-> [ns[i] EXCEPT !.parent = par[i + 2]]]) :
              ns \in [1..k -> TreeNodes],
              par \in { f \in [3..(k + 2) -> 2..(k + 1)] :
                          \A i \in 3..(k + 2) :
                            f[i] < i /\ (i > 3 => f[i] \in Chain(f, i - 1)) } } :
          k \in 2..(MaxNodes + 1) }

\* elements that vary what accessibleName reads: inputs with and without a
\* value, an alt and an aria-label, links with an alt, buttons with a long text
NameNodes ==
  { [BaseNode EXCEPT !.tag = S_input, !.type = t, !.value = v, !.alt = a, !.ariaLabel = l] :
      t \in {UNDEF, S_submit, S_reset, S_button, <<"i","m","a","g","e">>},
      v \in {UNDEF, <<>>, S_go}, a \in {UNDEF, <<>>, <<"L","o","g","o">>},
      l \in {UNDEF, <<>>, S_ZipCode, S_ZipCodeLoose} }
  \cup { [BaseNode EXCEPT !.tag = S_a, !.href = <<"/","x">>, !.alt = a, !.text = x] :
           a \in {UNDEF, <<"L","o","g","o">>}, x \in {<<>>, S_go, S_ZipCodeLoose} }
  \cup { [BaseNode EXCEPT !.tag = S_button, !.text = x] : x \in LongTexts(TextMax) }

\* a submit input wrapped in a label
LabelledPages ==
  { Page(<< [BaseNode EXCEPT !.tag = S_label, !.text = x],
            [BaseNode EXCEPT !.tag = S_input, !.parent = 3, !.type = S_submit,
               !.value = v, !.alt = a, !.ariaLabel = l] >>) :
      x \in {<<>>, S_ZipCodeLoose, Rep("a", TextMax - 1) \o <<" ","b">>},
      v \in {UNDEF, S_go}, a \in {UNDEF, <<"L","o","g","o">>}, l \in {UNDEF, S_ZipCode} }

\* pages with a nested structure: a summary in a details, a wrapping label,
\* a label with a for attribute
StructuredPages ==
  { Page(<< [BaseNode EXCEPT !.tag = S_details],
            [BaseNode EXCEPT !.tag = S_summary, !.parent = 3, !.text = S_go] >>),
    Page(<< [BaseNode EXCEPT !.tag = S_div, !.contenteditable = S_true],
            [BaseNode EXCEPT !.tag = S_summary, !.parent = 3, !.text = S_go],
            [BaseNode EXCEPT !.tag = S_span, !.parent = 3, !.tabindex = <<"0">>] >>),
    Page(<< [BaseNode EXCEPT !.tag = S_label, !.text = S_ZipCodeLoose],
            [BaseNode EXCEPT !.tag = S_input, !.parent = 3] >>),
    Page(<< [BaseNode EXCEPT !.tag = S_label, !.text = S_ZipCode, !.for = S_zip],
            [BaseNode EXCEPT !.tag = S_input, !.id = S_zip] >>) }

Pages ==
  {Page(<<n>>) : n \in SignalNodes}
  \cup {Page(<<n>>) : n \in RoleNodes \cup TagNodes \cup VisibilityNodes \cup DisabledNodes}
  \cup {Page(<<n>>) : n \in CssNodes}
  \cup TreePages
  \cup {Page(<<n>>) : n \in NameNodes}
  \cup LabelledPages
  \cup {Page(ns) : ns \in SeqsUpTo(TypeNodes, MaxNodes)}
  \cup StructuredPages

(***************************************************************************)
(* scanUrl as a process: one action per await                              *)
(***************************************************************************)
Failure(what) == [error |-> what]

IsFailure(o) == "error" \in DOMAIN o

\* mutant of PageOf: one page object shared by all invocations
PageOfShared(p) == page["s1"]

\* const page = await browser.newPage(): the page of invocation p, which
\* page.goto loads with p's target
PageOf(p) == page[p]

\* await chromium.launch(...)
Launch(p) ==
  /\ scan[p].pc = "start"
  /\ \/ scan' = [scan EXCEPT ![p].pc = "launched", ![p].browser = "open"]
     \/ scan' = [scan EXCEPT ![p].pc = "threw", ![p].outcome = Failure("launch")]
  /\ UNCHANGED <<genVars, clock, page>>

\* await browser.newPage(), before the try block
NewPage(p) ==
  /\ scan[p].pc = "launched"
  /\ \/ scan' = [scan EXCEPT ![p].pc = "paged"]
     \/ scan' = [scan EXCEPT ![p].pc = "threw", ![p].outcome = Failure("newPage")]
  /\ UNCHANGED <<genVars, clock, page>>

\* await page.goto(url, ...); a failure goes to the finally block
Goto(p) ==
  /\ scan[p].pc = "paged"
  /\ \/ scan' = [scan EXCEPT ![p].pc = "loaded"]
     \/ scan' = [scan EXCEPT ![p].pc = "closing", ![p].outcome = Failure("goto")]
  /\ UNCHANGED <<genVars, clock, page>>

\* await page.evaluate(...), then the conversion, the counts and the report
Evaluate(p) ==
  /\ scan[p].pc = "loaded"
  /\ \/ scan' = [scan EXCEPT ![p].pc = "closing",
                             ![p].kept = Filtered(PageOf(p)),
                             ![p].outcome = ScanReport(scan[p].url, PageOf(p), clock,
                                                       scan[p].rev)]
     \/ scan' = [scan EXCEPT ![p].pc = "closing", ![p].outcome = Failure("evaluate")]
  /\ UNCHANGED <<genVars, clock, page>>

\* finally { await browser.close() }, then the return or the rethrow
Close(p) ==
  /\ scan[p].pc = "closing"
  /\ scan' = [scan EXCEPT ![p].browser = "closed",
                          ![p].pc = IF IsFailure(scan[p].outcome) THEN "threw" ELSE "returned"]
  /\ UNCHANGED <<genVars, clock, page>>

\* the page a second, concurrent invocation scans
OtherPages ==
  { Page(<< [BaseNode EXCEPT !.tag = S_button, !.text = S_go],
            [BaseNode EXCEPT !.tag = S_span, !.contenteditable = S_true] >>) }

\* the pages scanned while another invocation is in progress
OverlappedPages == {Page(ns) : ns \in SeqsUpTo(TypeNodes, 1)} \cup StructuredPages

ScanStart(url, rev) ==
  [pc |-> "start", url |-> url, rev |-> rev, browser |-> "none", kept |-> <<>>,
   outcome |-> NONE, outPath |-> NONE]

ScanInit ==
  /\ inputFile = NONE
  /\ report = NONE
  /\ model = NONE
  /\ genPc = "off"
  /\ files = {}
  /\ clock = 0
  /\ probe = NONE
  /\ history = {}
  /\ \E rev \in Revisions :
       \/ \E pg \in Pages :
            /\ page = [p \in Procs |-> IF p = "s1" THEN pg ELSE <<>>]
            /\ scan = [p \in Procs |-> IF p = "s1" THEN ScanStart(U_wwwExamplePath, rev)
                                      ELSE ScanOff]
       \/ \E pg \in OverlappedPages, other \in OtherPages :
            /\ page = [p \in Procs |-> IF p = "s1" THEN pg ELSE other]
            /\ scan = [p \in Procs |-> IF p = "s1" THEN ScanStart(U_wwwExamplePath, rev)
                                      ELSE ScanStart(U_shopExample, rev)]

ScanNext == \E p \in Procs : Launch(p) \/ NewPage(p) \/ Goto(p) \/ Evaluate(p) \/ Close(p)

ScanSpec == ScanInit /\ [][ScanNext]_vars

(***************************************************************************)
(* The scan command (cli/commands/scan.ts) and writeJsonReport             *)
(***************************************************************************)
\* String(n).padStart(2, "0")
pad2(n) == IF Len(NumStr(n)) < 2 THEN <<"0">> \o NumStr(n) ELSE NumStr(n)

\* safeSlug: lower case, a leading www. removed, runs outside [a-z0-9] turned
\* into one hyphen, hyphens at both ends removed
safeSlug(input) == StripHyphens(HyphenateRuns(StripWww(toLowerCase(input))))

EndsWith(s, suffix) ==
  Len(s) >= Len(suffix) /\ SubSeq(s, Len(s) - Len(suffix) + 1, Len(s)) = suffix

\* domain.replace(/-com$|-net$|-org$/g, "")
DomainShort(domain) ==
  IF \E suffix \in {<<"-","c","o","m">>, <<"-","n","e","t">>, <<"-","o","r","g">>} : EndsWith(domain, suffix)
  THEN SubSeq(domain, 1, Len(domain) - 4)
  ELSE domain

\* the local date and time `now` seconds after 2026-01-18 00:00:00, as the
\* getters of Date give them (getMonth() + 1 already taken)
DateOf(now) ==
  [ month |-> 1, date |-> 18, fullYear |-> 2026,
    hours |-> (now \div 3600) % 24, minutes |-> (now \div 60) % 60, seconds |-> now % 60 ]

\* `recon-report-${mm}-${dd}-${yyyy}-${domainShort}-${hh}${min}${ss}.json`
buildReportFileName(reportUrl, now) ==
  LET d == DateOf(now)
      domainShort == DomainShort(safeSlug(Hostname(reportUrl)))
  IN <<"r","e","c","o","n","-","r","e","p","o","r","t","-">> \o pad2(d.month) \o <<"-">> \o pad2(d.date) \o <<"-">>
       \o NumStr(d.fullYear) \o <<"-">> \o domainShort \o <<"-">>
       \o pad2(d.hours) \o pad2(d.minutes) \o pad2(d.seconds) \o <<".","j","s","o","n">>

\* path.join(outputDir, fileName)
ReportPath(outputDir, fileName) == [dir |-> outputDir, name |-> fileName]

\* url.toString() of a parsed http(s) url without a port: the host in lower
\* case and "/" for an empty path
UrlToString(raw) ==
  LET scheme == IF StartsWith(raw, SchemeHttps) THEN SchemeHttps ELSE SchemeHttp
      rest == AfterScheme(raw)
      authority == TakeUntil(rest, {"/", "?", "#"})
      tail == Drop(rest, Len(authority))
  IN scheme \o toLowerCase(authority)
       \o (IF tail = <<>> \/ Head(tail) # "/" THEN <<"/">> ELSE <<>>) \o tail

\* parseUrl(rawUrl).toString(), or the Error parseUrl throws
CmdParse(p) ==
  /\ scan[p].pc = "cmd"
  /\ scan' = [scan EXCEPT
       ![p].pc = IF Hostname(scan[p].url) = UNDEF THEN "threw" ELSE "start",
       ![p].url = IF Hostname(scan[p].url) = UNDEF THEN scan[p].url
                  ELSE UrlToString(scan[p].url),
       ![p].outcome = IF Hostname(scan[p].url) = UNDEF THEN Failure("Invalid URL") ELSE NONE]
  /\ UNCHANGED <<genVars, clock, page>>

\* writeJsonReport up to its await fs.mkdir(outputDir, { recursive: true })
ReportMkdir(p) ==
  /\ scan[p].pc = "returned"
  /\ scan' = [scan EXCEPT ![p].pc = "mkdir"]
  /\ UNCHANGED <<genVars, clock, page>>

\* writeJsonReport after fs.mkdir: the file name from the url and the time,
\* fs.writeFile, and the command's log lines
ReportWrite(p) ==
  /\ scan[p].pc = "mkdir"
  /\ LET filePath == ReportPath("reports", buildReportFileName(scan[p].outcome.url, clock))
     IN /\ files' = WriteFile(files, filePath, scan[p].outcome)
        /\ scan' = [scan EXCEPT ![p].pc = "written", ![p].outPath = filePath]
  /\ UNCHANGED <<inputFile, report, model, genPc, clock, probe, history, page>>

U_exampleNet == SchemeHttps \o <<"E","x","a","m","p","l","e",".","N","E","T">>
U_exampleOrgPath == SchemeHttp \o <<"e","x","a","m","p","l","e",".","o","r","g","/","a","?","b">>

CmdUrls == {U_wwwExamplePath, U_exampleNet, U_exampleOrgPath, U_shopExample, U_words}

CmdPages ==
  { Page(<< [BaseNode EXCEPT !.tag = S_a, !.href = <<"/","x">>, !.text = S_go] >>),
    Page(<< >>) }

CmdStart(raw, rev) == [ScanStart(raw, rev) EXCEPT !.pc = "cmd"]

CmdInit ==
  /\ inputFile = NONE
  /\ report = NONE
  /\ model = NONE
  /\ genPc = "off"
  /\ files = {}
  /\ clock = 0
  /\ probe = NONE
  /\ history = {}
  /\ \E rev \in Revisions, pg \in CmdPages, other \in OtherPages, u1, u2 \in CmdUrls :
       /\ page = [p \in Procs |-> IF p = "s1" THEN pg ELSE other]
       /\ scan = [p \in Procs |-> CmdStart(IF p = "s1" THEN u1 ELSE u2, rev)]

CmdNext ==
  \/ ScanNext
  \/ \E p \in Procs : CmdParse(p) \/ ReportMkdir(p) \/ ReportWrite(p)
  \/ Tick

CmdSpec == CmdInit /\ [][CmdNext]_vars

(***************************************************************************)
(* Claims about buildPageModel, checked on the model the gen command built *)
(***************************************************************************)

\* gen holds a page model built from `report`
Built == genPc \in {"mkdir", "done"}

\* the string has a character that is not whitespace
NonBlank(s) == s # UNDEF /\ \E i \in DOMAIN s : s[i] \notin WS

StrategyOrder == <<"testId", "role", "label", "placeholder", "css", "xpath">>

StrategyRank(st) == CHOOSE i \in DOMAIN StrategyOrder : StrategyOrder[i] = st

Strategies(locs) == [i \in DOMAIN locs |-> locs[i].strategy]

\* the strategies appear in the preference order, each at most once
InPreferenceOrder(locs) ==
  /\ \A i \in DOMAIN locs : locs[i].strategy \in Range(StrategyOrder)
  /\ \A i, j \in DOMAIN locs :
       i < j => StrategyRank(locs[i].strategy) < StrategyRank(locs[j].strategy)

\* C2 (as claimed): the locator strategies of every model element are in the
\* order testId, role, label, placeholder, css, xpath, each at most once, and
\* an element with test-id, role, label text, placeholder, CSS and XPath all
\* present (non-empty) gets exactly the six of them.
C2_AsClaimed ==
  Built =>
    \A i \in DOMAIN report.elements :
      LET el == report.elements[i]
          locs == model.elements[i].locators
      IN /\ InPreferenceOrder(locs)
         /\ ( Truthy(el.testId) /\ Truthy(el.role) /\ Truthy(el.labelText)
              /\ Truthy(el.placeholder) /\ Truthy(el.css) /\ Truthy(el.xpath)
              => Strategies(locs) = StrategyOrder )

\* C2 (amended): the same, the six-hint case requiring a label text that is
\* not blank (a whitespace-only label text yields no label hint).
C2_LocatorOrder ==
  Built =>
    \A i \in DOMAIN report.elements :
      LET el == report.elements[i]
          locs == model.elements[i].locators
      IN /\ InPreferenceOrder(locs)
         /\ ( Truthy(el.testId) /\ Truthy(el.role) /\ NonBlank(el.labelText)
              /\ Truthy(el.placeholder) /\ Truthy(el.css) /\ Truthy(el.xpath)
              => Strategies(locs) = StrategyOrder )

C2_Witness ==
  /\ Built
  /\ \E i \in DOMAIN report.elements :
       /\ report.elements[i].labelText = S_ZipCodeLoose
       /\ Strategies(model.elements[i].locators) = StrategyOrder

\* the signals buildName prefers, best first
NameSources(el) ==
  <<el.accessibleName, el.labelText, el.ariaLabel, el.name, el.id, el.text>>

\* the first index of src whose entry satisfies P, 0 when none does
FirstIndex(src, P(_)) ==
  IF \E k \in DOMAIN src : P(src[k])
  THEN CHOOSE k \in DOMAIN src : P(src[k]) /\ \A j \in 1..(k - 1) : ~P(src[j])
  ELSE 0

\* C3 (as claimed): the name of every model element is derived from the first
\* of accessibleName, labelText, ariaLabel, name, id, text that is present,
\* and is absent only when none of them is present.
C3_AsClaimed ==
  Built =>
    \A i \in DOMAIN report.elements :
      LET src == NameSources(report.elements[i])
          k == FirstIndex(src, Truthy)
          name == model.elements[i].name
      IN IF k = 0 THEN name = UNDEF
         ELSE name # UNDEF /\ name = CollapseWs(Trim(src[k]))

\* C3 (amended): the name is the whitespace-normalized value of the first of
\* accessibleName, labelText, ariaLabel, name, id, text that is not blank, and
\* is absent exactly when all of them are absent or blank; with
\* accessibleName, labelText, ariaLabel, id and text all non-blank it is the
\* accessibleName.
C3_NamePrecedence ==
  Built =>
    \A i \in DOMAIN report.elements :
      LET el == report.elements[i]
          src == NameSources(el)
          k == FirstIndex(src, NonBlank)
          name == model.elements[i].name
      IN /\ IF k = 0 THEN name = UNDEF
            ELSE name # UNDEF /\ name = Slice0(CollapseWs(Trim(src[k])), NameMax)
         /\ ( NonBlank(el.accessibleName) /\ NonBlank(el.labelText) /\ NonBlank(el.ariaLabel)
              /\ NonBlank(el.id) /\ NonBlank(el.text)
              => name = Slice0(CollapseWs(Trim(el.accessibleName)), NameMax) )

C3_Witness ==
  /\ Built
  /\ \E i \in DOMAIN report.elements :
       LET el == report.elements[i]
       IN /\ el.accessibleName = <<"A">> /\ el.labelText = <<"B">> /\ el.ariaLabel = <<"C">>
          /\ el.id = <<"D">> /\ el.text = <<"E"," "," ","e">>
          /\ model.elements[i].name = <<"A">>

\* the documented mapping from recon type to model kind
KindOf ==
  [ button |-> "button", link |-> "link", input |-> "textbox",
    select |-> "select", textarea |-> "textarea", other |-> "other" ]

\* C4: every element's kind is its type mapped by input->textbox,
\* button->button, link->link, select->select, textarea->textarea,
\* other->other, and no element of any report gets kind checkbox or radio.
C4_KindMapping ==
  Built =>
    \A i \in DOMAIN report.elements :
      LET t == report.elements[i].type
          kind == model.elements[i].kind
      IN /\ t \in DOMAIN KindOf => kind = KindOf[t]
         /\ kind \notin {"checkbox", "radio"}

C4_Witness ==
  /\ Built
  /\ \E i, j \in DOMAIN report.elements :
       /\ report.elements[i].type = "input" /\ model.elements[i].kind = "textbox"
       /\ report.elements[j].type = "radio" /\ model.elements[j].kind = "other"

S_exampleCom == <<"e","x","a","m","p","l","e",".","c","o","m">>

\* C5: for a well-formed url the domain is the hostname without one leading
\* "www." and otherwise the hostname itself, whatever the elements are:
\* https://www.example.com/path gives example.com, https://shop.example.co.uk
\* is unchanged, www.www.e.co loses one www., wwwx.co and a.www.b lose none.
C5_Domain ==
  Built =>
    LET h == Hostname(report.url)
    IN /\ h # UNDEF
       /\ model.domain = (IF SubSeq(h, 1, 4) = WwwDot THEN SubSeq(h, 5, Len(h)) ELSE h)
       /\ report.url = U_wwwExamplePath => model.domain = S_exampleCom
       /\ report.url = U_shopExample => model.domain = Drop(U_shopExample, Len(SchemeHttps))
       /\ report.url = U_wwwWww => model.domain = <<"w","w","w",".","e",".","c","o">>
       /\ report.url = U_upperWww => model.domain = <<"e",".","c","o">>
       /\ report.url = U_wwwx => model.domain = <<"w","w","w","x",".","c","o">>
       /\ report.url = U_innerWww => model.domain = <<"a",".","w","w","w",".","b">>

C5_Witness ==
  /\ Built
  /\ report.url = U_wwwWww
  /\ Len(report.elements) = MaxElems
  /\ model.domain = <<"w","w","w",".","e",".","c","o">>

\* locs has a hint of strategy st
HasHint(locs, st) == \E i \in DOMAIN locs : locs[i].strategy = st

\* the hint of strategy st among locs
HintOf(locs, st) == locs[CHOOSE i \in DOMAIN locs : locs[i].strategy = st]

\* the emitted hints carry the element's own values
HintValues(el, locs) ==
  /\ \A i \in DOMAIN locs :
       IF locs[i].strategy = "role" THEN Truthy(locs[i].role) ELSE Truthy(locs[i].value)
  /\ HasHint(locs, "testId") => HintOf(locs, "testId").value = el.testId
  /\ HasHint(locs, "role") => HintOf(locs, "role").role = el.role
  /\ HasHint(locs, "placeholder") => HintOf(locs, "placeholder").value = el.placeholder
  /\ HasHint(locs, "css") => HintOf(locs, "css").value = el.css
  /\ HasHint(locs, "xpath") => HintOf(locs, "xpath").value = el.xpath

\* C7 (as claimed): a testId, label, placeholder, css or xpath hint is emitted
\* exactly when the corresponding value is present and non-empty, a role hint
\* exactly when role is non-empty, and no emitted hint has an empty or absent
\* value.
C7_AsClaimed ==
  Built =>
    \A i \in DOMAIN report.elements :
      LET el == report.elements[i]
          locs == model.elements[i].locators
      IN /\ HasHint(locs, "testId") = Truthy(el.testId)
         /\ HasHint(locs, "role") = Truthy(el.role)
         /\ HasHint(locs, "label") = Truthy(el.labelText)
         /\ HasHint(locs, "placeholder") = Truthy(el.placeholder)
         /\ HasHint(locs, "css") = Truthy(el.css)
         /\ HasHint(locs, "xpath") = Truthy(el.xpath)
         /\ HintValues(el, locs)

\* C7 (amended): as claimed, except that the label hint is emitted exactly
\* when the label text is not blank (it carries the normalized label text);
\* a button with only accessibleName, testId and css yields [testId, css].
C7_HintsEmitted ==
  Built =>
    \A i \in DOMAIN report.elements :
      LET el == report.elements[i]
          locs == model.elements[i].locators
      IN /\ HasHint(locs, "testId") = Truthy(el.testId)
         /\ HasHint(locs, "role") = Truthy(el.role)
         /\ HasHint(locs, "label") = NonBlank(el.labelText)
         /\ HasHint(locs, "placeholder") = Truthy(el.placeholder)
         /\ HasHint(locs, "css") = Truthy(el.css)
         /\ HasHint(locs, "xpath") = Truthy(el.xpath)
         /\ HintValues(el, locs)
         /\ HasHint(locs, "label")
              => HintOf(locs, "label").value = Slice0(CollapseWs(Trim(el.labelText)), NameMax)
         /\ el = ScenarioButton
              => locs = << [strategy |-> "testId", value |-> S_submitBtn],
                           [strategy |-> "css", value |-> S_cssPrimary] >>

C7_Witness ==
  /\ Built
  /\ \E i \in DOMAIN report.elements :
       LET el == report.elements[i]
           locs == model.elements[i].locators
       IN /\ el.role = S_textbox /\ el.accessibleName = UNDEF /\ el.labelText = S_blank
          /\ HintOf(locs, "role") = [strategy |-> "role", role |-> S_textbox, name |-> UNDEF]
          /\ ~HasHint(locs, "label")

\* the precondition of C8: no test-id, role, label text or placeholder, a CSS
\* selector that is not empty
OnlySelectors(el) ==
  /\ ~Truthy(el.testId) /\ ~Truthy(el.role) /\ ~Truthy(el.labelText)
  /\ ~Truthy(el.placeholder) /\ Truthy(el.css)

\* C8 (as claimed): such an element's locators are exactly [css, xpath].
C8_AsClaimed ==
  Built =>
    \A i \in DOMAIN report.elements :
      OnlySelectors(report.elements[i])
        => Strategies(model.elements[i].locators) = <<"css", "xpath">>

\* C8 (amended): such an element's locators are exactly [css, xpath] when it
\* has a non-empty XPath, and exactly [css] when it has none.
C8_OnlyCssXpath ==
  Built =>
    \A i \in DOMAIN report.elements :
      LET el == report.elements[i]
          locs == model.elements[i].locators
      IN OnlySelectors(el)
           => IF Truthy(el.xpath)
              THEN locs = << [strategy |-> "css", value |-> el.css],
                             [strategy |-> "xpath", value |-> el.xpath] >>
              ELSE locs = << [strategy |-> "css", value |-> el.css] >>

C8_Witness ==
  /\ Built
  /\ \E i \in DOMAIN report.elements :
       /\ OnlySelectors(report.elements[i])
       /\ report.elements[i].xpath = S_xpZip
       /\ Strategies(model.elements[i].locators) = <<"css", "xpath">>

\* new URL(url) rejects the url
Malformed(url) == Hostname(url) = UNDEF

\* C10: when the report's url is malformed, buildPageModel fails before
\* producing any element or model, and gen writes no page-model file.
C10_MalformedUrlFails ==
  report # NONE =>
    /\ Malformed(report.url) /\ genPc # "loaded"
         => genPc = "failed" /\ model = NONE /\ files = {}
    /\ Malformed(report.url) => buildPageModel(report, UNDEF) = TypeError
    /\ genPc = "failed" => Malformed(report.url)

C10_Witness ==
  /\ genPc = "failed"
  /\ report.url = U_words
  /\ Len(report.elements) > 0
  /\ files = {}

Reported(p) == scan[p].pc \in {"closing", "returned"} /\ ~IsFailure(scan[p].outcome)

\* the number of elements of els with type t
TypeCount(els, t) == Cardinality({k \in DOMAIN els : els[k].type = t})

\* C1: in every report scanUrl returns, whatever the candidates (none
\* included), counts has exactly the six type keys, each the number of
\* elements of that type, and the counts add up to the number of elements.
C1_Counts ==
  \A p \in Procs :
    Reported(p) =>
      LET r == scan[p].outcome
      IN /\ DOMAIN r.counts = Range(AllTypes)
         /\ \A t \in Range(AllTypes) : r.counts[t] = TypeCount(r.elements, t)
         /\ r.counts["button"] + r.counts["link"] + r.counts["input"] + r.counts["select"]
              + r.counts["textarea"] + r.counts["other"] = Len(r.elements)
         /\ Len(r.elements) = Len(scan[p].kept)

C1_Witness ==
  \E p \in Procs :
    /\ scan[p].pc = "returned"
    /\ Len(scan[p].outcome.elements) = 2
    /\ scan[p].outcome.counts["link"] = 1
    /\ scan[p].outcome.counts["other"] = 1
    /\ scan[p].outcome.counts["select"] = 0

\* the node is a div or a span
Container(n) == n.tag \in {S_div, S_span}

\* the node carries a role, a tabindex, or a click handler
Marked(n) ==
  \/ n.role # UNDEF /\ n.role # <<>>
  \/ n.tabindex # UNDEF /\ n.tabindex # <<>>
  \/ n.onclick # UNDEF
  \/ n.onclickFn

\* the indices of the nodes a report's elements were made from
ReportedNodes(p) == Range(scan[p].kept)

\* C9: a div or span is in a report only if it carries a role, a tabindex or
\* a click handler; one that lacks all three is left out even if it is
\* contenteditable; every other candidate is kept by the filter.
C9_ContainerFilter ==
  \A p \in Procs :
    Reported(p) =>
      \A i \in DOMAIN page[p] :
        LET n == page[p][i]
        IN /\ i \in ReportedNodes(p) /\ Container(n) => Marked(n)
           /\ Container(n) /\ n.role = UNDEF /\ n.tabindex = UNDEF /\ ~hasClickHandler(n)
                => i \notin ReportedNodes(p)
           /\ ~Container(n) /\ isCandidate(page[p], i) => i \in ReportedNodes(p)
           /\ i \in ReportedNodes(p) => isCandidate(page[p], i)

C9_Witness ==
  \E p \in Procs :
    /\ scan[p].pc = "returned"
    /\ scan[p].outcome.elements = <<>>
    /\ \E i \in DOMAIN page[p] :
         /\ page[p][i].tag = S_div
         /\ page[p][i].contenteditable = S_true
         /\ page[p][i].role = UNDEF /\ page[p][i].tabindex = UNDEF
         /\ isCandidate(page[p], i)

(***************************************************************************)
(* Claims about sparse reports                                             *)
(***************************************************************************)

\* the fields buildName reads are all absent
NoNameInput(el) ==
  /\ el.accessibleName = UNDEF /\ el.labelText = UNDEF /\ el.ariaLabel = UNDEF
  /\ el.name = UNDEF /\ el.id = UNDEF /\ el.text = UNDEF

\* the element model made from el lacks every derived field whose inputs el lacks
DegradesToAbsent(el, em) ==
  /\ NoNameInput(el) => em.name = UNDEF
  /\ el.role = UNDEF => em.role = UNDEF /\ ~HasHint(em.locators, "role")
  /\ el.href = UNDEF => em.href = UNDEF
  /\ el.testId = UNDEF => ~HasHint(em.locators, "testId")
  /\ el.labelText = UNDEF => ~HasHint(em.locators, "label")
  /\ el.placeholder = UNDEF => ~HasHint(em.locators, "placeholder")
  /\ el.css = UNDEF => ~HasHint(em.locators, "css")
  /\ el.xpath = UNDEF => ~HasHint(em.locators, "xpath")
  /\ el.accessibleName = UNDEF /\ HasHint(em.locators, "role")
       => HintOf(em.locators, "role").name = UNDEF
  /\ el.disabled = UNDEF => em.flags.disabled = UNDEF
  /\ el.ariaDisabled = UNDEF => em.flags.ariaDisabled = UNDEF
  /\ em.id # UNDEF /\ em.id # <<>>
  /\ em.kind = KindOf[el.type]
  /\ em.tagName = el.tagName

\* C11: for a report with a well-formed url, whatever optional fields its
\* elements have or lack, buildPageModel returns a model (gen never fails),
\* with one element model per element, and every derived field whose inputs
\* are all absent is absent in it.
C11_SparseTotal ==
  report # NONE /\ ~Malformed(report.url) /\ genPc # "loaded" =>
    /\ Built
    /\ model # NONE
    /\ buildPageModel(report, UNDEF) # TypeError
    /\ Len(model.elements) = Len(report.elements)
    /\ \A i \in DOMAIN report.elements :
         DegradesToAbsent(report.elements[i], model.elements[i])

C11_Witness ==
  /\ genPc = "done"
  /\ Len(report.elements) = 1
  /\ NoNameInput(report.elements[1])
  /\ report.elements[1].role = UNDEF
  /\ report.elements[1].css = UNDEF
  /\ report.elements[1].xpath = S_zip
  /\ model.elements[1].name = UNDEF
  /\ Len(model.elements[1].locators) = 1

(***************************************************************************)
(* Claims about names and identifiers                                      *)
(***************************************************************************)

\* C12: in every model buildPageModel returns, the identifiers of two
\* elements at different positions differ, also when the elements are equal
\* in type and naming signals or when a slug ends in digits.
C12_DistinctIds ==
  Built =>
    \A i, j \in DOMAIN model.elements :
      i # j => model.elements[i].id # model.elements[j].id

C12_Witness ==
  /\ Built
  /\ Len(model.elements) = 2
  /\ report.elements[1] = report.elements[2]
  /\ report.elements[1].testId = <<"x", "-", "1">>
  /\ model.elements[1].id # model.elements[2].id

(***************************************************************************)
(* Claims about concurrent scans                                           *)
(***************************************************************************)

\* what invocation p returns when it runs alone on its own target
Alone(p) == ScanReport(scan[p].url, page[p], clock, scan[p].rev)

C14_AsClaimed ==
  /\ \A p, q \in Procs :
       p # q /\ scan[p].pc = "written" /\ scan[q].pc = "written"
         => scan[p].outPath # scan[q].outPath
  /\ \A p \in Procs :
       scan[p].pc = "written"
         => [path |-> scan[p].outPath, content |-> scan[p].outcome] \in files

\* the optional strings of an element that buildName and buildLocators hand
\* to safeName
SafeNameInputs(el) ==
  {el.accessibleName, el.labelText, el.ariaLabel, el.name, el.id, el.text}

\* C15: safeName is idempotent: wherever safeName(s) is defined, applying
\* safeName to it again gives the same string; so every name in a built
\* model is its own safeName.
C15_AsClaimed ==
  Built =>
    \A i \in DOMAIN report.elements :
      /\ \A s \in SafeNameInputs(report.elements[i]) :
           safeName(s) # UNDEF => safeName(safeName(s)) = safeName(s)
      /\ model.elements[i].name # UNDEF
           => safeName(model.elements[i].name) = model.elements[i].name

\* the part of an identifier between `${type}-` and `-${index}`
SlugPart(id, type, index) ==
  SubSeq(id, Len(TypeText(type)) + 2, Len(id) - Len(NumStr(index)) - 1)

\* lowercase letters, digits and single hyphens only, no hyphen at either end
WellFormedSlug(slug) ==
  /\ \A k \in DOMAIN slug : IsLowerAlnum(slug[k]) \/ slug[k] = "-"
  /\ \A k \in 1..(Len(slug) - 1) : ~(slug[k] = "-" /\ slug[k + 1] = "-")
  /\ slug # <<>>
  /\ slug[1] # "-"
  /\ slug[Len(slug)] # "-"

\* C16: the slug part of every identifier has only lowercase letters, digits
\* and single hyphens, no leading or trailing hyphen, at most 50 characters,
\* and is "unnamed" exactly when the normalized source gives an empty slug.
C16_AsClaimed ==
  Built =>
    \A i \in DOMAIN report.elements :
      LET el == report.elements[i]
          slug == SlugPart(model.elements[i].id, el.type, i - 1)
      IN /\ WellFormedSlug(slug)
         /\ Len(slug) <= SlugMax
         /\ slug = Unnamed <=> IdSlug(el, i - 1) = <<>>

\* what does hold of the slug part: everything but the missing trailing hyphen
C16_ButTrailingHyphen ==
  Built =>
    \A i \in DOMAIN report.elements :
      LET el == report.elements[i]
          slug == SlugPart(model.elements[i].id, el.type, i - 1)
      IN /\ WellFormedSlug(StripTrailingHyphens(slug))
         /\ Len(slug) <= SlugMax
         /\ Len(slug) - Len(StripTrailingHyphens(slug)) <= 1
         /\ slug = Unnamed <=> IdSlug(el, i - 1) = <<>>

\* the slug sources of an element, in the documented order
IdSources(el) == <<el.testId, el.id, el.name, el.ariaLabel, el.text, el.tagName>>

\* the first source that is present and not the empty string
FirstAvailable(el) ==
  LET src == IdSources(el)
      k == CHOOSE i \in DOMAIN src :
             Truthy(src[i]) /\ \A j \in 1..(i - 1) : ~Truthy(src[j])
  IN src[k]

\* the slug of a source text: normalized, lowercased, hyphenated, cut
SlugOf(base) ==
  LET hyphenated == StripHyphens(HyphenateRuns(toLowerCase(normalizeWhitespace(base))))
      slug == Slice0(hyphenated, SlugMax)
  IN IF slug = <<>> THEN Unnamed ELSE slug

NodeOf(p, k) == page[p][scan[p].kept[k]]

\* the role attribute in lower case, "" when there is none
RoleOf(n) == IF n.role = UNDEF THEN <<>> ELSE toLowerCase(n.role)

HasInteractiveRole(n) == RoleOf(n) \in INTERACTIVE_ROLES

\* the type each interactive role maps to
RoleType(role) ==
  IF role = S_textbox THEN "input"
  ELSE IF role \in {S_combobox, S_listbox} THEN "select"
  ELSE IF role = S_link THEN "link"
  ELSE IF role = S_button THEN "button"
  ELSE "other"

\* the page of p with the role attribute of node i removed
WithoutRole(p, i) == [page[p] EXCEPT ![i].role = UNDEF]

\* C18: when a reported node's role, lower-cased, is an interactive role,
\* its type is the one the role maps to, whatever its tag, href or input
\* type; any other role leaves the type what it is without the role.
C18_RolePrecedence ==
  \A p \in Procs :
    Reported(p) =>
      \A k \in DOMAIN scan[p].kept :
        LET n == NodeOf(p, k)
            type == scan[p].outcome.elements[k].type
        IN IF HasInteractiveRole(n)
           THEN type = RoleType(RoleOf(n))
           ELSE type = normalizeType(RawEl(WithoutRole(p, scan[p].kept[k]), scan[p].kept[k],
                                           scan[p].rev), scan[p].rev)

C18_Witness ==
  \E p \in Procs :
    /\ scan[p].pc = "returned"
    /\ Len(scan[p].kept) = 1
    /\ NodeOf(p, 1).tag = S_a
    /\ NodeOf(p, 1).href # UNDEF
    /\ NodeOf(p, 1).role = <<"C","h","e","c","k","b","o","x">>
    /\ scan[p].outcome.elements[1].type = "other"

\* C19: a reported node without an interactive role is typed by its tag:
\* button, an anchor with an href attribute link, select, textarea, input
\* input, anything else other.
C19_AsClaimed ==
  \A p \in Procs :
    Reported(p) =>
      \A k \in DOMAIN scan[p].kept :
        LET n == NodeOf(p, k)
            type == scan[p].outcome.elements[k].type
        IN ~HasInteractiveRole(n) =>
             type = IF n.tag = S_button THEN "button"
                    ELSE IF n.tag = S_a /\ n.href # UNDEF THEN "link"
                    ELSE IF n.tag = S_select THEN "select"
                    ELSE IF n.tag = S_textarea THEN "textarea"
                    ELSE IF n.tag = S_input THEN "input"
                    ELSE "other"

\* the type attribute in lower case, "" when there is none
InputTypeOf(n) == IF n.type = UNDEF THEN <<>> ELSE toLowerCase(n.type)

\* C20: a reported input without an interactive role is typed button when
\* its type attribute is button, submit or reset in any case, and input
\* otherwise, also without a type attribute.
C20_AsClaimed ==
  \A p \in Procs :
    Reported(p) =>
      \A k \in DOMAIN scan[p].kept :
        LET n == NodeOf(p, k)
            type == scan[p].outcome.elements[k].type
        IN n.tag = S_input /\ ~HasInteractiveRole(n) =>
             type = IF InputTypeOf(n) \in {S_button, S_submit, S_reset}
                    THEN "button" ELSE "input"

\* the same, for the documented revision of the scanner only
C20_InDocumentedRevision ==
  \A p \in Procs : scan[p].rev = "part_006" => C20_AsClaimed

(***************************************************************************)
(* Claims about the candidate rules                                        *)
(***************************************************************************)

\* one of the six conditions that hide a node holds
Hidden(n) ==
  \/ n.display = S_none
  \/ n.visibility = S_hidden
  \/ n.opacity = <<"0">>
  \/ n.hidden
  \/ n.width = 0 \/ n.height = 0
  \/ n.ariaHidden = S_true

\* C21: isVisible is false of a node exactly when its display is none, its
\* visibility hidden, its opacity 0, its hidden flag set, its box of zero
\* width or height, or its aria-hidden "true"; so no element of a report
\* comes from such a node.
C21_Visibility ==
  \A p \in Procs :
    Reported(p) =>
      /\ \A i \in DOMAIN page[p] : isVisible(page[p][i]) <=> ~Hidden(page[p][i])
      /\ \A k \in DOMAIN scan[p].kept : ~Hidden(NodeOf(p, k))
      /\ \A i \in DOMAIN page[p] :
           page[p][i].tag = S_button /\ ~Hidden(page[p][i]) => i \in ReportedNodes(p)

C21_Witness ==
  \E p \in Procs :
    /\ scan[p].pc = "returned"
    /\ scan[p].outcome.elements = <<>>
    /\ \E i \in DOMAIN page[p] :
         /\ page[p][i].tag = S_button
         /\ page[p][i].ariaHidden = S_true
         /\ isVisibleIgnoringAria(page[p][i])

\* the attribute value is written as a number that is not negative
NonNegativeNumeral(s) ==
  /\ s # UNDEF
  /\ s # <<>>
  /\ \A i \in DOMAIN s : s[i] \in Range(Digits)

\* what makes a visible node a candidate, as stated
InteractiveSignal(dom, i) ==
  \/ nativeInteractive(dom, i)
  \/ RoleOf(dom[i]) \in INTERACTIVE_ROLES
  \/ NonNegativeNumeral(dom[i].tabindex)
  \/ hasClickHandler(dom[i])
  \/ dom[i].contenteditable = S_true

\* C22: a node is a candidate exactly when it is visible and is a native
\* interactive tag, carries an interactive role, a tabindex that is a
\* non-negative number, a click handler or contenteditable="true"; a tabindex
\* that is negative or not a number never makes a node a candidate by itself.
C22_AsClaimed ==
  \A p \in Procs :
    Reported(p) =>
      /\ \A i \in DOMAIN page[p] :
           isCandidate(page[p], i) <=> (isVisible(page[p][i]) /\ InteractiveSignal(page[p], i))
      /\ \A k \in DOMAIN scan[p].kept :
           LET n == NodeOf(p, k)
           IN ~NonNegativeNumeral(n.tabindex) =>
                InteractiveSignal(page[p], scan[p].kept[k])

\* C23: an element of a report says whether its node is natively disabled
\* and, separately, whether it is aria-disabled; buildPageModel copies both
\* into the element's flags.
C23_AsClaimed ==
  \A p \in Procs :
    Reported(p) =>
      \A k \in DOMAIN scan[p].kept :
        LET n == NodeOf(p, k)
            e == scan[p].outcome.elements[k]
            built == buildPageModel(scan[p].outcome, UNDEF)
        IN /\ e.disabled = JTRUE <=> (n.disabledProp \/ n.disabled # UNDEF)
           /\ e.ariaDisabled = JTRUE <=> n.ariaDisabled = S_true
           /\ ~IsFailure(built) =>
                /\ built.elements[k].flags.disabled = e.disabled
                /\ built.elements[k].flags.ariaDisabled = e.ariaDisabled

(***************************************************************************)
(* Claims about the synthesized selectors                                  *)
(***************************************************************************)

\* the first value of a sequence of attribute values that is present and not
\* empty, UNDEF when there is none
FirstNonEmpty(vs) ==
  LET ok == SelectSeq(vs, Truthy)
  IN IF ok = <<>> THEN UNDEF ELSE Head(ok)

\* a selector list that matches the value on any of the three test-id attributes
TestIdSelectorList(v) ==
  <<"[","d","a","t","a","-","t","e","s","t","i","d","=","\"">> \o cssEscape(v) \o <<"\"","]",","," ","[","d","a","t","a","-","t","e","s","t","=","\"">> \o cssEscape(v)
    \o <<"\"","]",","," ","[","d","a","t","a","-","t","e","s","t","-","i","d","=","\"">> \o cssEscape(v) \o <<"\"","]">>

\* tag[attr="value"]
AttrSelector(tag, attr, v) == tag \o <<"[">> \o attr \o <<"=","\"">> \o cssEscape(v) \o <<"\"","]">>

\* C24: the css of a reported element is the selector of the first non-empty
\* of test-id (data-testid, data-test, data-test-id, as a list over the three
\* attributes), id (#id), name (tag[name=]), aria-label (tag[aria-label=]),
\* and the tag alone when there is none; it is never empty and the test-id
\* it uses is the testId of the same element.
C24_BestCss ==
  \A p \in Procs :
    Reported(p) =>
      \A k \in DOMAIN scan[p].kept :
        LET n == NodeOf(p, k)
            e == scan[p].outcome.elements[k]
        IN /\ e.css # <<>> /\ e.css # UNDEF
           /\ e.testId = FirstNonEmpty(<<n.dataTestid, n.dataTest, n.dataTestId>>)
           /\ e.css =
                IF e.testId # UNDEF THEN TestIdSelectorList(e.testId)
                ELSE IF Truthy(n.id) THEN <<"#">> \o cssEscape(n.id)
                ELSE IF Truthy(n.name) THEN AttrSelector(n.tag, <<"n","a","m","e">>, n.name)
                ELSE IF Truthy(n.ariaLabel) THEN AttrSelector(n.tag, <<"a","r","i","a","-","l","a","b","e","l">>, n.ariaLabel)
                ELSE n.tag

C24_Witness ==
  \E p \in Procs :
    /\ scan[p].pc = "returned"
    /\ ~IsFailure(scan[p].outcome)
    /\ \E k \in DOMAIN scan[p].kept :
         /\ NodeOf(p, k).dataTestid = <<>>
         /\ NodeOf(p, k).dataTestId = <<"t",".","3">>
         /\ NodeOf(p, k).dataTest = UNDEF
         /\ NodeOf(p, k).id = <<"a",".","b">>
         /\ scan[p].outcome.elements[k].testId = <<"t",".","3">>
         /\ scan[p].outcome.elements[k].css = TestIdSelectorList(<<"t",".","3">>)

\* the elements from the document root down to node i
RECURSIVE Ancestry(_, _)
Ancestry(dom, i) ==
  IF i = 0 THEN <<>> ELSE Append(Ancestry(dom, dom[i].parent), i)

\* the siblings before node j with the tag of node j
PrecedingSameTag(dom, j) ==
  {s \in DOMAIN dom : s < j /\ dom[s].parent = dom[j].parent /\ dom[s].tag = dom[j].tag}

\* /tag[index] of each element of a sequence of nodes, joined
RECURSIVE Segments(_, _)
Segments(dom, js) ==
  IF js = <<>> THEN <<>>
  ELSE Segments(dom, SubSeq(js, 1, Len(js) - 1))
         \o <<"/">> \o dom[js[Len(js)]].tag \o <<"[">>
         \o NumStr(1 + Cardinality(PrecedingSameTag(dom, js[Len(js)]))) \o <<"]">>

\* the number of "/" in a path
Slashes(s) == Cardinality({i \in DOMAIN s : s[i] = "/"})

\* C25: the xpath of a reported element with a non-empty id is
\* //*[@id="<id>"]; otherwise it has exactly one /tag[index] segment per
\* element from the document root down to the node, each index 1 plus the
\* number of preceding siblings of that element with the same tag.
C25_XPath ==
  \A p \in Procs :
    Reported(p) =>
      \A k \in DOMAIN scan[p].kept :
        LET i == scan[p].kept[k]
            n == page[p][i]
            x == scan[p].outcome.elements[k].xpath
        IN IF n.id # UNDEF /\ n.id # <<>>
           THEN x = <<"/","/","*","[","@","i","d","=","\"">> \o n.id \o <<"\"","]">>
           ELSE /\ x = Segments(page[p], Ancestry(page[p], i))
                /\ Slashes(x) = Len(Ancestry(page[p], i))

C25_Witness ==
  \E p \in Procs :
    /\ scan[p].pc = "returned"
    /\ ~IsFailure(scan[p].outcome)
    /\ \E k \in DOMAIN scan[p].kept :
         /\ scan[p].outcome.elements[k].xpath = <<"/","h","t","m","l","[","1","]","/","b","o","d","y","[","1","]","/","a","[","1","]","/","b","u","t","t","o","n","[","2","]">>
         /\ NodeOf(p, k).parent = 3
    /\ \E k \in DOMAIN scan[p].kept :
         scan[p].outcome.elements[k].xpath = <<"/","/","*","[","@","i","d","=","\"","z","i","p","\"","]">>

(***************************************************************************)
(* Claims about the names                                                  *)
(***************************************************************************)

\* the value attribute, for an input of type submit, button or reset only
ButtonValue(n) ==
  IF n.tag = S_input /\ InputTypeOf(n) \in {S_submit, S_button, S_reset}
  THEN n.value ELSE UNDEF

\* C26: the accessibleName of a reported element is the first non-empty of
\* its aria-label, its associated label text, its value (inputs of type
\* submit, button or reset only), its alt and its normalized visible text,
\* and is absent when all of them are empty.
C26_AsClaimed ==
  \A p \in Procs :
    Reported(p) =>
      \A k \in DOMAIN scan[p].kept :
        LET n == NodeOf(p, k)
            e == scan[p].outcome.elements[k]
        IN e.accessibleName =
             FirstNonEmpty(<<n.ariaLabel, e.labelText, ButtonValue(n), n.alt, e.text>>)

\* the same, for the documented revision of the scanner only
C26_InDocumentedRevision ==
  \A p \in Procs : scan[p].rev = "part_006" => C26_AsClaimed

\* no leading or trailing whitespace and no two whitespace characters in a row
WhitespaceNormalized(s) ==
  /\ s # <<>> => (s[1] \notin WS /\ s[Len(s)] \notin WS)
  /\ \A i \in 1..(Len(s) - 1) : ~(s[i] \in WS /\ s[i + 1] \in WS)

\* a text of a report: absent, or normalized, not empty and within the limit
ReportText(s) ==
  s # UNDEF => (s # <<>> /\ Len(s) <= TextMax /\ WhitespaceNormalized(s))

\* C27: every accessibleName and every labelText of a report, whichever
\* source it came from, is whitespace-normalized, at most 200 characters
\* long and never the empty string.
C27_AsClaimed ==
  \A p \in Procs :
    Reported(p) =>
      \A k \in DOMAIN scan[p].outcome.elements :
        /\ ReportText(scan[p].outcome.elements[k].accessibleName)
        /\ ReportText(scan[p].outcome.elements[k].labelText)

(***************************************************************************)
(* Claims about the browser                                                *)
(***************************************************************************)

\* scanUrl is over for invocation p: it returned or it threw
Left(p) == scan[p].pc \in {"returned", "threw"}

\* C28: when scanUrl is left after it launched a browser, by a return or by
\* a failure of page creation, navigation or evaluation, the browser has
\* been closed, and a failure has been thrown to the caller.
C28_AsClaimed ==
  \A p \in Procs :
    Left(p) =>
      /\ scan[p].browser # "open"
      /\ IsFailure(scan[p].outcome) <=> scan[p].pc = "threw"

(***************************************************************************)
(* Round trip of the positional path                                       *)
(***************************************************************************)

\* the number written by a sequence of digits
RECURSIVE DigitsValue(_)
DigitsValue(ds) ==
  IF ds = <<>> THEN 0
  ELSE 10 * DigitsValue(SubSeq(ds, 1, Len(ds) - 1))
         + (CHOOSE v \in 0..9 : Digits[v + 1] = ds[Len(ds)])

\* the steps of a path /tag[index]/tag[index]...: one [tag, index] per "/"
PathSteps(x) ==
  LET starts == SelectSeq(Indices(x), LAMBDA i : x[i] = "/")
      StepAt(k) ==
        LET from == starts[k] + 1
            to == IF k = Len(starts) THEN Len(x) ELSE starts[k + 1] - 1
            open == CHOOSE b \in from..to : x[b] = "["
        IN [tag |-> SubSeq(x, from, open - 1),
            index |-> DigitsValue(SubSeq(x, open + 1, to - 1))]
  IN [k \in DOMAIN starts |-> StepAt(k)]

\* the children of node i (0: the document) with the given tag, in document order
ChildrenWithTag(dom, i, tag) ==
  SelectSeq(Indices(dom), LAMBDA j : dom[j].parent = i /\ dom[j].tag = tag)

\* the node reached from the document by taking, at each step, the index-th
\* child with the step's tag; -1 when there is no such child
RECURSIVE Follow(_, _)
Follow(dom, steps) ==
  IF steps = <<>> THEN 0
  ELSE LET at == Follow(dom, SubSeq(steps, 1, Len(steps) - 1))
           step == steps[Len(steps)]
           kids == IF at = -1 THEN <<>> ELSE ChildrenWithTag(dom, at, step.tag)
       IN IF step.index \in DOMAIN kids THEN kids[step.index] ELSE -1

\* the elements of a tree that have no id
IdLess(dom) == {i \in DOMAIN dom : ~Truthy(dom[i].id)}

\* C29: following the xpath of an element without an id from the document
\* root, taking at each step the index-th child with the step's tag, reaches
\* that element and no other; two distinct elements without an id of the same
\* tree never have the same xpath.
C29_RoundTrip ==
  \A p \in Procs :
    Reported(p) =>
      /\ \A k \in DOMAIN scan[p].kept :
           scan[p].kept[k] \in IdLess(page[p]) =>
             Follow(page[p], PathSteps(scan[p].outcome.elements[k].xpath)) = scan[p].kept[k]
      /\ \A i, j \in IdLess(page[p]) :
           i # j => xpathFor(page[p], i) # xpathFor(page[p], j)

C29_Witness ==
  \E p \in Procs :
    /\ scan[p].pc = "returned"
    /\ ~IsFailure(scan[p].outcome)
    /\ \E k1, k2 \in DOMAIN scan[p].kept :
         LET a == NodeOf(p, k1)
             b == NodeOf(p, k2)
         IN /\ {scan[p].kept[k1], scan[p].kept[k2]} \subseteq IdLess(page[p])
            /\ a.tag = b.tag
            /\ a.parent > 2
            /\ b.parent = 2
            /\ SiblingIndex(page[p], scan[p].kept[k1]) = SiblingIndex(page[p], scan[p].kept[k2])
            /\ Follow(page[p], PathSteps(scan[p].outcome.elements[k1].xpath)) = scan[p].kept[k1]
====
